---- MODULE Spec2Model ----
(***************************************************************************)
(* Model of the pip audit of comfyui_utils (comfyui_pip_update_audit.py):  *)
(* requirement aggregation, version resolution (fetch_pypi + choose_max),  *)
(* candidate selection with hold / pin, dry-run classification, and the    *)
(* per-package report with the final command lines.                        *)
(***************************************************************************)
EXTENDS Integers, Sequences, FiniteSets, TLC

VARIABLES
    pc,              \* position of main(): "setup","collect","pypi","vcs","candidates","classify","report","done"
    cfg,             \* config.json content relevant to hold / pin
    tree,            \* requirements.txt files of the root and of the plugin folders
    installed_map,   \* canonical name -> installed distribution info
    names,           \* sorted(allc)
    reports,         \* canonical name -> PackageReport
    pypi,            \* the answers of the package index, in the order of the queries
    extra_reqs,      \* the VcsReport of every VCS / URL requirement line
    idx,             \* loop index of the phase in progress (1-based, next item)
    lists,           \* cand, missing, downgrades, held, pinned_ok, pinned_mismatch, safe, risky, unknown
    dry_runs,        \* log of the argument lists of every dry_run() subprocess call
    printed,         \* console output: per-package lines and final commands
    config_file,     \* config.json on disk: environment and path keys
    earlier,         \* what an earlier run of the audit collected from the same tree, or Null
    checker,         \* requirements_dict / normalized_dict of requirements_checker, or Null
    cm,              \* ConfigManager: its file, whether an instance exists, the last call
    hp,              \* --hold / --pin / --unhold / --unpin: the "holds" of config.json, the last invocation
    chk              \* requirements_checker.main(): step in progress, text printed, how it ended

vars == <<pc, cfg, tree, installed_map, names, reports, pypi, extra_reqs, idx, lists, dry_runs, printed,
          config_file, earlier, checker, cm, hp, chk>>

\* the state of the command-line tools next to the audit run
tools == <<cm, hp, chk>>

-----------------------------------------------------------------------------
(* Bounds *)
MaxReleases == 3      \* releases in one index answer (resolver specification)
MaxConstraints == 2   \* constraints on one package (resolver specification)
MaxFolders == 3       \* entries of custom_nodes (aggregation specification)

-----------------------------------------------------------------------------
(* Versions: release tuples <<major, minor>>, ordered like packaging.Version *)
Null == <<>>

VLt(a, b) == a[1] < b[1] \/ (a[1] = b[1] /\ a[2] < b[2])
VLe(a, b) == a = b \/ VLt(a, b)

\* str(Version)
VerStr(v) == ToString(v[1]) \o "." \o ToString(v[2])

\* sorted(set(vs)) of a collection of versions
RECURSIVE SortedSeq(_)
SortedSeq(S) ==
    IF S = {} THEN <<>>
    ELSE LET m == CHOOSE x \in S : \A y \in S : VLe(x, y)
         IN <<m>> \o SortedSeq(S \ {m})

Range(s) == { s[k] : k \in DOMAIN s }
Last(s) == s[Len(s)]

-----------------------------------------------------------------------------
(* Specifiers: a SpecifierSet is a set of clauses (op, version); str(s) is  *)
(* empty exactly when the set has no clause.                                *)
Clause(op, v) == [op |-> op, ver |-> v]

\* a comparison that takes "<" for "<="
ClauseHoldsLax(v, c) ==
    CASE c.op = "==" -> v = c.ver
      [] c.op = "!=" -> v # c.ver
      [] c.op = "<"  -> VLe(v, c.ver)
      [] c.op = "<=" -> VLe(v, c.ver)
      [] c.op = ">"  -> VLt(c.ver, v)
      [] c.op = ">=" -> VLe(c.ver, v)

ClauseHolds(v, c) ==
    CASE c.op = "==" -> v = c.ver
      [] c.op = "!=" -> v # c.ver
      [] c.op = "<"  -> VLt(v, c.ver)
      [] c.op = "<=" -> VLe(v, c.ver)
      [] c.op = ">"  -> VLt(c.ver, v)
      [] c.op = ">=" -> VLe(c.ver, v)

\* v in SpecifierSet
SpecContains(s, v) == \A c \in s : ClauseHolds(v, c)

\* str(spec) is non-empty
SpecNonEmpty(s) == s # {}

-----------------------------------------------------------------------------
(* Package names are sequences of characters.                               *)
IsSep(c) == c \in { "-", "_", "." }

\* str.lower() on one character
LowerChar(c) ==
    CASE c = "N" -> "n"
      [] c = "P" -> "p"
      [] c = "S" -> "s"
      [] c = "I" -> "i"
      [] c = "M" -> "m"
      [] c = "D" -> "d"
      [] OTHER -> c

\* re.sub(r"[-_.]+", "-", name.lower()): every run of separators becomes one "-"
RECURSIVE CollapseFrom(_, _)
CollapseFrom(s, k) ==
    IF k > Len(s) THEN <<>>
    ELSE IF IsSep(s[k])
         THEN IF k > 1 /\ IsSep(s[k-1]) THEN CollapseFrom(s, k+1)
              ELSE <<"-">> \o CollapseFrom(s, k+1)
         ELSE <<LowerChar(s[k])>> \o CollapseFrom(s, k+1)

canonicalize_name(name) == CollapseFrom(name, 1)

\* ord() of the characters that occur in the modelled names
Ord(c) ==
    CASE c = "-" -> 45 [] c = "." -> 46 [] c = "D" -> 68 [] c = "I" -> 73
      [] c = "M" -> 77 [] c = "N" -> 78 [] c = "P" -> 80 [] c = "S" -> 83
      [] c = "_" -> 95 [] c = "d" -> 100 [] c = "i" -> 105 [] c = "l" -> 108
      [] c = "m" -> 109 [] c = "n" -> 110 [] c = "o" -> 111 [] c = "p" -> 112
      [] c = "s" -> 115 [] c = "u" -> 117 [] c = "w" -> 119 [] c = "y" -> 121

\* Python str "<"
RECURSIVE StrLtFrom(_, _, _)
StrLtFrom(a, b, k) ==
    IF k > Len(b) THEN FALSE
    ELSE IF k > Len(a) THEN TRUE
    ELSE IF Ord(a[k]) # Ord(b[k]) THEN Ord(a[k]) < Ord(b[k])
    ELSE StrLtFrom(a, b, k+1)

StrLt(a, b) == StrLtFrom(a, b, 1)

\* sorted() of a set of strings
RECURSIVE SortedNames(_)
SortedNames(S) ==
    IF S = {} THEN <<>>
    ELSE LET m == CHOOSE x \in S : \A y \in S : x = y \/ StrLt(x, y)
         IN <<m>> \o SortedNames(S \ {m})

Numpy == <<"n","u","m","p","y">>
NumPy == <<"N","u","m","P","y">>
Pillow == <<"P","i","l","l","o","w">>
pillow == <<"p","i","l","l","o","w">>
PillowSIMD == <<"P","i","l","l","o","w","-","S","I","M","D">>
pillow_simd == <<"p","i","l","l","o","w","_","s","i","m","d">>
PillowDotSimd == <<"p","i","l","l","o","w",".","s","i","m","d">>

-----------------------------------------------------------------------------
(* Package index (fetch_pypi).  An answer of the index is either a failure  *)
(* or the "releases" mapping, listed in the order the JSON gives its keys;  *)
(* a release is [ver, pre, files], files being the requires_python verdict  *)
(* of each of its files: "none" (absent), "ok" (contains the interpreter),  *)
(* "bad" (excludes it) or "junk" (not a specifier).  A release key that is  *)
(* not a version has ver = Null.                                            *)
Release(v, pre, files) == [ver |-> v, pre |-> pre, files |-> files]
Stable(v) == Release(v, FALSE, <<"none">>)

IndexFailure == [ok |-> FALSE, releases |-> <<>>]
IndexAnswer(rels) == [ok |-> TRUE, releases |-> rels]

\* the for/break loop over the files of one release, lines 904-921
RECURSIVE FilesCompatibleFrom(_, _)
FilesCompatibleFrom(files, k) ==
    IF k > Len(files) THEN FALSE
    ELSE IF files[k] \in { "none", "junk", "ok" } THEN TRUE
    ELSE FilesCompatibleFrom(files, k+1)

ReleaseCompatible(rel) ==
    IF rel.files = <<>> THEN TRUE ELSE FilesCompatibleFrom(rel.files, 1)

\* the version list fetch_pypi returns: sorted(set(vs))
FetchedVersions(kept) == SortedSeq(kept)

\* fetch_pypi: (versions, skipped, filtered)
fetch_pypi(answer) ==
    IF ~answer.ok THEN [vs |-> <<>>, skipped |-> {}, filtered |-> {}]
    ELSE LET rels == { r \in Range(answer.releases) : r.ver # Null }   \* Version(v) raised: skipped
             stable == { r \in rels : ~r.pre }
         IN [ vs |-> FetchedVersions({ r.ver : r \in { q \in stable : ReleaseCompatible(q) } }),
              skipped |-> { r.ver : r \in { q \in stable : ~ReleaseCompatible(q) } },
              filtered |-> { r.ver : r \in { q \in rels : q.pre } } ]

-----------------------------------------------------------------------------
(* choose_max(versions, specs): versions is a sequence, specs a sequence    *)
\* a resolver that accepts a version as soon as one specifier accepts it
SpecsAllowAny(specs, v) ==
    \E k \in DOMAIN specs : SpecNonEmpty(specs[k]) => SpecContains(specs[k], v)

SpecsAllow(specs, v) ==
    \A k \in DOMAIN specs : SpecNonEmpty(specs[k]) => SpecContains(specs[k], v)

Feasible(versions, specs) == SelectSeq(versions, LAMBDA v : SpecsAllow(specs, v))

\* a resolver that takes the first feasible version instead of the last
choose_max_first(versions, specs) ==
    IF versions = <<>> THEN Null
    ELSE IF specs = <<>> THEN Last(versions)
    ELSE LET feas == SelectSeq(versions, LAMBDA v : SpecsAllow(specs, v))
         IN IF feas # <<>> THEN feas[1] ELSE Null

\* a resolver that applies no policy to a package without specifier
choose_max_nospec(versions, specs) ==
    IF versions = <<>> THEN Null
    ELSE IF specs = <<>> THEN versions[1]
    ELSE LET feas == SelectSeq(versions, LAMBDA v : SpecsAllow(specs, v))
         IN IF feas # <<>> THEN Last(feas) ELSE Null

choose_max(versions, specs) ==
    IF versions = <<>> THEN Null
    ELSE IF specs = <<>> THEN Last(versions)
    ELSE LET feas == Feasible(versions, specs)
         IN IF feas # <<>> THEN Last(feas) ELSE Null

-----------------------------------------------------------------------------
(* Requirement files.  A line of a file is given by what parse_req_file     *)
(* sees in it after str.strip(): its kind is "blank", "comment" (starts     *)
(* with "#"), "option" (starts with "-"), "req" (Requirement() accepts the  *)
(* text before the first "#") or "extra" (Requirement() rejects it: a VCS   *)
(* or raw URL).  raw is the text before the first "#", tail the rest of the *)
(* line ("" when the line has no "#"), marker the verdict of the            *)
(* environment marker after ";" ("none" when there is no marker).  For a    *)
(* "req" line name and spec are Requirement.name and .specifier; for an     *)
(* "extra" line name, url and ref are what parse_vcs_line and               *)
(* infer_name_from_url find in raw.                                         *)
ReqLine(kind, name, spec, raw, url, ref, marker, tail) ==
    [ kind |-> kind, name |-> name, spec |-> spec, raw |-> raw, url |-> url, ref |-> ref,
      marker |-> marker, tail |-> tail ]

Line(name, spec) == ReqLine("req", name, spec, "", "", <<>>, "none", "")
ExtraLine(raw, name, url, ref) == ReqLine("extra", name, {}, raw, url, ref, "none", "")
OptionLine(raw) == ReqLine("option", <<>>, {}, raw, "", <<>>, "none", "")
CommentLine(raw) == ReqLine("comment", <<>>, {}, "", "", <<>>, "none", raw)
BlankLine == ReqLine("blank", <<>>, {}, "", "", <<>>, "none", "")

WithMarker(l, m) == [l EXCEPT !.marker = m]
WithTail(l, t) == [l EXCEPT !.tail = t]

(* A folder is a directory entry of the ComfyUI root or of custom_nodes:    *)
(* its name is name \o suffix (suffix "", ".disable" or ".disabled"), isdir *)
(* and listable tell whether os.path.isdir holds and os.listdir succeeds,   *)
(* files are the files below it, each with its path relative to the folder. *)
File(path, readable, lines) == [path |-> path, readable |-> readable, lines |-> lines]

Folder(name, suffix, isdir, listable, files) ==
    [name |-> name, suffix |-> suffix, isdir |-> isdir, listable |-> listable, files |-> files]

\* os.path.basename(pl)
BaseName(folder) == folder.name \o folder.suffix

\* Python str "<" on the folder names of the model
DirRank(name) ==
    CASE name = "ComfyUI" -> 0 [] name = "notes" -> 1
      [] name = "plugin_a" -> 2 [] name = "plugin_b" -> 3 [] name = "plugin_c" -> 4
      [] name = "plugin_d" -> 5 [] name = "plugin_e" -> 6 [] name = "plugin_f" -> 7
      [] name = "plugin_g" -> 8 [] name = "plugin_h" -> 9

SuffixRank(suffix) == CASE suffix = "" -> 0 [] suffix = ".disable" -> 1 [] suffix = ".disabled" -> 2

DirLt(f, g) ==
    \/ DirRank(f.name) < DirRank(g.name)
    \/ DirRank(f.name) = DirRank(g.name) /\ SuffixRank(f.suffix) < SuffixRank(g.suffix)

\* sorted(os.listdir(custom_nodes))
RECURSIVE SortedDirs(_)
SortedDirs(S) ==
    IF S = {} THEN <<>>
    ELSE LET m == CHOOSE x \in S : \A y \in S : x = y \/ DirLt(x, y)
         IN <<m>> \o SortedDirs(S \ {m})

\* a plugin_dirs that takes the entries in the order of os.listdir
plugin_dirs_unsorted(listing) ==
    SelectSeq(listing, LAMBDA f : f.isdir /\ f.suffix # ".disable")

\* a plugin_dirs that keeps every directory
plugin_dirs_all(listing) ==
    SelectSeq(SortedDirs(Range(listing)), LAMBDA f : f.isdir)

\* plugin_dirs: the directories of sorted(os.listdir(custom_nodes)) whose
\* name does not end with ".disable"
plugin_dirs(listing) ==
    SelectSeq(SortedDirs(Range(listing)), LAMBDA f : f.isdir /\ f.suffix # ".disable")

\* str.lower() on the file names of the model
LowerFile(fname) == IF fname = "Requirements.txt" THEN "requirements.txt" ELSE fname

\* REQ_FILE_RE.match(f): ^requirements\.txt$, ignoring case
REQ_FILE_RE(fname) == LowerFile(fname) = "requirements.txt"

\* find_reqs on a folder that os.listdir can list: the files of the folder
\* itself whose name matches
find_reqs(folder) ==
    SelectSeq(folder.files, LAMBDA f : Len(f.path) = 1 /\ REQ_FILE_RE(f.path[1]))

\* parse_req_file: (reqs, extras); the extras are kept as their text before
\* the first "#"
parse_req_file(file) ==
    IF ~file.readable THEN [reqs |-> <<>>, extras |-> <<>>]
    ELSE [ reqs |-> SelectSeq(file.lines, LAMBDA l : l.kind = "req" /\ l.marker # "false"),
           extras |-> SelectSeq(file.lines, LAMBDA l : l.kind = "extra" /\ l.marker # "false") ]

\* the path of a requirements file: folder name, then the path below it
ReqPath(folder, file) == <<BaseName(folder)>> \o file.path

SourceConstraint(repo, file, spec) == [repo |-> repo, file |-> file, spec |-> spec]

\* allc.setdefault(n, []).append(...) for the requirements of one file
RECURSIVE AddLines(_, _, _, _, _)
AddLines(allc, repo, path, lines, k) ==
    IF k > Len(lines) THEN allc
    ELSE LET n == canonicalize_name(lines[k].name)
             c == SourceConstraint(repo, path, lines[k].spec)
             old == IF n \in DOMAIN allc THEN allc[n] ELSE <<>>
             next == [m \in DOMAIN allc \cup {n} |-> IF m = n THEN Append(old, c) ELSE allc[m]]
         IN AddLines(next, repo, path, lines, k+1)

\* for reqf in find_reqs(folder): the requirements of every file found
RECURSIVE AddFiles(_, _, _, _)
AddFiles(allc, folder, files, k) ==
    IF k > Len(files) THEN allc
    ELSE AddFiles(AddLines(allc, BaseName(folder), ReqPath(folder, files[k]),
                           parse_req_file(files[k]).reqs, 1),
                  folder, files, k+1)

RECURSIVE AddPlugins(_, _, _)
AddPlugins(allc, plugins, k) ==
    IF k > Len(plugins) THEN allc
    ELSE AddPlugins(AddFiles(allc, plugins[k], find_reqs(plugins[k]), 1), plugins, k+1)

EmptyMap == [m \in {} |-> <<>>]

\* lines 1369-1403: constraints of the root file, then of every plugin file
CollectConstraints(root, plugins) ==
    AddPlugins(AddFiles(EmptyMap, root, find_reqs(root), 1), plugins, 1)

VcsReport(repo, file, l) ==
    [ repo |-> repo, file |-> file, raw |-> l.raw,
      name |-> IF l.name # Null THEN canonicalize_name(l.name) ELSE Null,
      url |-> l.url, ref |-> l.ref,
      installed |-> Null, installed_commit |-> <<>>, ref_ok |-> "None", ref_error |-> "None" ]

VcsReportsOf(folder, file) ==
    LET ex == parse_req_file(file).extras
    IN [k \in DOMAIN ex |-> VcsReport(BaseName(folder), ReqPath(folder, file), ex[k])]

RECURSIVE FolderExtras(_, _, _)
FolderExtras(folder, files, k) ==
    IF k > Len(files) THEN <<>>
    ELSE VcsReportsOf(folder, files[k]) \o FolderExtras(folder, files, k+1)

RECURSIVE PluginExtras(_, _)
PluginExtras(plugins, k) ==
    IF k > Len(plugins) THEN <<>>
    ELSE FolderExtras(plugins[k], find_reqs(plugins[k]), 1) \o PluginExtras(plugins, k+1)

\* extra_reqs, lines 1377-1382 and 1398-1403
CollectExtras(root, plugins) ==
    FolderExtras(root, find_reqs(root), 1) \o PluginExtras(plugins, 1)

\* os.listdir raises in find_reqs for the root or for a plugin folder
ListingFails(root, plugins) ==
    ~root.listable \/ \E k \in DOMAIN plugins : ~plugins[k].listable

\* _resolve_vcs_installed, by the name of the entry (no installed
\* distribution of the model records a direct URL under another name)
resolve_vcs_installed(imap, v) ==
    IF v.name # Null /\ v.name \in DOMAIN imap.version /\ imap.version[v.name] # Null
    THEN [v EXCEPT !.installed = imap.version[v.name], !.installed_commit = imap.commit[v.name]]
    ELSE v

\* str.startswith on commit ids, given as sequences of hex digits
StartsWith(a, b) == Len(b) <= Len(a) /\ \A k \in DOMAIN b : a[k] = b[k]

\* the commit recorded for the installed distribution starts with the ref
CommitMatches(v) == v.ref # <<>> /\ v.installed_commit # <<>> /\ StartsWith(v.installed_commit, v.ref)

\* one iteration of the "VCS refs" loop, lines 1442-1452; ok is the verdict of
\* check_vcs_ref (git ls-remote) when it is called
CheckRef(v, ok) ==
    IF CommitMatches(v) THEN [v EXCEPT !.ref_ok = "True", !.ref_error = "matched installed commit"]
    ELSE IF v.url # "" THEN [v EXCEPT !.ref_ok = IF ok THEN "True" ELSE "False",
                                      !.ref_error = IF ok THEN "None" ELSE "git error"]
    ELSE v

need_vcs_install(v) ==
    IF v.installed = Null THEN TRUE
    ELSE IF v.ref_ok = "False" THEN TRUE
    ELSE FALSE

\* inst_ver_from_map
inst_ver_from_map(imap, n) ==
    IF canonicalize_name(n) \in DOMAIN imap.version
    THEN imap.version[canonicalize_name(n)] ELSE Null

PackageReport(n, inst, constraints) ==
    [ name |-> n, installed |-> inst, constraints |-> constraints,
      available_versions |-> <<>>, py_incompatible |-> {}, prerelease_filtered |-> {},
      max_allowed |-> Null, installable_max |-> Null, availability_issue |-> "None",
      update_ok |-> "None", update_error |-> "None", reverse_conflicts |-> {} ]

\* specs = [c.spec for c in rpt.constraints if str(c.spec)]
NonEmptySpecs(rpt) ==
    LET kept == SelectSeq(rpt.constraints, LAMBDA c : SpecNonEmpty(c.spec))
    IN [k \in DOMAIN kept |-> kept[k].spec]

\* body of the "PyPI info" loop for one package, lines 1423-1438
ResolvePackage(rpt, answer) ==
    LET f == fetch_pypi(answer)
        specs == NonEmptySpecs(rpt)
        mx == choose_max(f.vs, specs)
        err == IF specs # <<>> /\ mx = Null
               THEN (IF f.vs = <<>> THEN "no_releases_found" ELSE "no_release_satisfies")
               ELSE IF f.vs = <<>> /\ f.skipped # {} THEN "all_require_other_python"
               ELSE rpt.update_error
    IN [rpt EXCEPT !.available_versions = f.vs,
                   !.py_incompatible = f.skipped,
                   !.prerelease_filtered = f.filtered,
                   !.max_allowed = mx,
                   !.installable_max = mx,
                   !.update_error = err]

-----------------------------------------------------------------------------
(* requirements_checker: RequirementsParser and the aggregation of main().  *)
(* requirements_dict and normalized_dict are ordered dictionaries: keys in  *)
(* insertion order, vals the list under each key.                           *)
Git == <<"g","i","t">>
ExtraIndexUrl == <<"-","-","e","x","t","r","a","-","i","n","d","e","x","-","u","r","l">>

EmptyDict == [keys |-> <<>>, vals |-> EmptyMap]

\* d[key].append(value), after d[key] = [] for a new key
DictAppend(d, key, value) ==
    IF key \in DOMAIN d.vals THEN [d EXCEPT !.vals[key] = Append(@, value)]
    ELSE [keys |-> Append(d.keys, key), vals |-> d.vals @@ (key :> <<value>>)]

\* d[key] = values
DictSet(d, key, values) ==
    IF key \in DOMAIN d.vals THEN [d EXCEPT !.vals[key] = values]
    ELSE [keys |-> Append(d.keys, key), vals |-> d.vals @@ (key :> values)]

\* normalize_package_name: package_name.lower().replace('-', '_')
normalize_package_name(package_name) ==
    [k \in DOMAIN package_name |->
        IF LowerChar(package_name[k]) = "-" THEN "_" ELSE LowerChar(package_name[k])]

\* group 1 of ^([\w-]+) on a package name: its longest prefix of letters,
\* digits, "_" and "-" (of the characters of the names, only "." stops it)
RECURSIVE WordPrefixFrom(_, _)
WordPrefixFrom(name, k) ==
    IF k > Len(name) \/ name[k] = "." THEN <<>>
    ELSE <<name[k]>> \o WordPrefixFrom(name, k+1)

\* the key parse_conditional_dependencies gives to a line kept by
\* get_active_requirements
package_key(l) ==
    CASE l.kind = "req" -> WordPrefixFrom(l.name, 1)
      [] l.kind = "extra" -> Git
      [] l.kind = "option" -> ExtraIndexUrl

\* the list item of a line: [extras, operator, version, directory] of a
\* package (a line of the aggregation trees has at most one comparison),
\* [url, None, None, directory] of a git or index line
CheckerValue(l, directory) ==
    [ spec |-> l.spec, url |-> IF l.kind = "req" THEN "" ELSE l.raw \o l.tail,
      directory |-> directory ]

\* get_active_requirements: the lines that are neither blank nor comments
get_active_requirements(file) ==
    SelectSeq(file.lines, LAMBDA l : l.kind \notin {"blank", "comment"})

RECURSIVE AddActive(_, _, _, _)
AddActive(d, directory, lines, k) ==
    IF k > Len(lines) THEN d
    ELSE AddActive(DictAppend(d, package_key(lines[k]), CheckerValue(lines[k], directory)),
                   directory, lines, k+1)

\* os.path.isfile(os.path.join(node_dir, "requirements.txt")), and the file
TopRequirements(folder) ==
    SelectSeq(folder.files, LAMBDA f : f.path = <<"requirements.txt">>)

\* main.py lines 264-283: the folders of sorted(os.listdir(custom_nodes_dir))
\* that are directories with a requirements.txt and whose name ends neither
\* with ".disable" nor with ".disabled"
checker_node_dirs(listing) ==
    SelectSeq(SortedDirs(Range(listing)),
              LAMBDA f : f.suffix \notin {".disable", ".disabled"} /\ f.isdir
                         /\ TopRequirements(f) # <<>>)

\* the folders whose requirements.txt main() reads: the root, then the nodes
CheckerDirs(t, listing) ==
    (IF TopRequirements(t.root) # <<>> THEN <<t.root>> ELSE <<>>) \o checker_node_dirs(listing)

RECURSIVE AddCheckerDirs(_, _, _)
AddCheckerDirs(d, dirs, k) ==
    IF k > Len(dirs) THEN d
    ELSE AddCheckerDirs(AddActive(d, BaseName(dirs[k]),
                                  get_active_requirements(TopRequirements(dirs[k])[1]), 1),
                        dirs, k+1)

\* response.json()["info"]["name"]: the name under which the index lists
\* the project
IndexName(package_name) ==
    IF canonicalize_name(package_name) = canonicalize_name(PillowSIMD) THEN PillowSIMD
    ELSE IF canonicalize_name(package_name) = pillow THEN Pillow
    ELSE canonicalize_name(package_name)

\* get_canonical_package_name; found: the index answered with status 200
get_canonical_package_name(package_name, found) ==
    IF found THEN IndexName(package_name) ELSE package_name

PackageKeys(d) == SelectSeq(d.keys, LAMBDA key : key \notin {Git, ExtraIndexUrl})

\* name_variations[normalized_name]
Variations(d, normalized_name) ==
    SelectSeq(PackageKeys(d), LAMBDA key : normalize_package_name(key) = normalized_name)

\* the keys of name_variations, in insertion order
RECURSIVE NormalizedNames(_, _)
NormalizedNames(keys, k) ==
    IF k > Len(keys) THEN <<>>
    ELSE LET rest == NormalizedNames(keys, k+1)
             nm == normalize_package_name(keys[k])
         IN <<nm>> \o SelectSeq(rest, LAMBDA x : x # nm)

RECURSIVE CombinedRequirements(_, _, _)
CombinedRequirements(d, variations, k) ==
    IF k > Len(variations) THEN <<>>
    ELSE d.vals[variations[k]] \o CombinedRequirements(d, variations, k+1)

\* second pass of process_requirements_dict
RECURSIVE CombineFrom(_, _, _, _, _)
CombineFrom(nd, d, norms, k, found) ==
    IF k > Len(norms) THEN nd
    ELSE LET variations == Variations(d, norms[k])
             next == IF Len(variations) > 1
                     THEN DictSet(nd, get_canonical_package_name(variations[1], found),
                                  CombinedRequirements(d, variations, 1))
                     ELSE DictSet(nd, variations[1], d.vals[variations[1]])
         IN CombineFrom(next, d, norms, k+1, found)

\* "Add back non-package entries"
AddBack(nd, d, key) == IF key \in DOMAIN d.vals THEN DictSet(nd, key, d.vals[key]) ELSE nd

process_requirements_dict(d, found) ==
    AddBack(AddBack(CombineFrom(EmptyDict, d, NormalizedNames(PackageKeys(d), 1), 1, found),
                    d, Git),
            d, ExtraIndexUrl)

-----------------------------------------------------------------------------
(* Configuration: top-level hold_packages / pin_packages, and the entry of  *)
(* the current environment under "holds" (env.present = the entry is a dict)*)
NoPins == [m \in {} |-> ""]

Config(tophold, toppin, present, envhold, envpin) ==
    [ hold_packages |-> tophold, pin_packages |-> toppin,
      env |-> [present |-> present, hold_packages |-> envhold, pin_packages |-> envpin] ]

\* _load_hold_config
load_hold_config(c) ==
    IF c.env.present
    THEN [hold_list |-> c.env.hold_packages, pin_map |-> c.env.pin_packages]
    ELSE [hold_list |-> c.hold_packages, pin_map |-> c.pin_packages]

\* hold_set, lines 1307-1308
HoldSet(c) == { canonicalize_name(p) : p \in Range(load_hold_config(c).hold_list) }

\* pin_map, lines 1309-1315
PinMap(c) ==
    LET raw == load_hold_config(c).pin_map
        keys == { canonicalize_name(k) : k \in DOMAIN raw }
    IN [n \in keys |-> raw[CHOOSE k \in DOMAIN raw : canonicalize_name(k) = n]]

-----------------------------------------------------------------------------
(* pip --dry-run.  The result of the subprocess is [kind, rc, out]: kind is *)
(* "exit" (the process ended with return code rc), "timeout"                *)
(* (subprocess.TimeoutExpired) or "oserror" (the process could not be       *)
(* spawned).  Its output is the set of telltale phrases the lowered text    *)
(* contains, plus the list that follows "from versions:".                   *)
Text(phrases, from_versions) == [phrases |-> phrases, from_versions |-> from_versions]
EmptyText == Text({}, <<>>)

PipExit(rc, out) == [kind |-> "exit", rc |-> rc, out |-> out]
PipTimeout == [kind |-> "timeout", rc |-> 0, out |-> EmptyText]
PipSpawnError == [kind |-> "oserror", rc |-> 0, out |-> EmptyText]

UnsupportedMarkers == { "no such option", "unrecognized arguments", "usage:" }

ConflictMarkers ==
    { "resolutionimpossible", "conflicting dependencies", "cannot install",
      "is incompatible with", "depends on", "requires" }

NetMarkers ==
    { "timeout", "timed out", "connection", "temporary failure", "ssl",
      "certificate", "name or service not known", "proxy" }

NoMatchingMarkers ==
    { "no matching distribution found for",
      "could not find a version that satisfies the requirement" }

\* f"timeout after {timeout_s}s"
TimeoutText == Text({"timeout"}, <<>>)

\* a dry run that takes every non-zero exit for a failure
DryRunNonZeroStrict(out) == FALSE

\* the verdict of dry_run on a process that exited with a non-zero code
DryRunNonZero(out) == (out.phrases \cap UnsupportedMarkers) # {}

\* a dry run that takes a timeout for a success
dry_run_timeout_ok(res) ==
    IF res.kind = "timeout" THEN [ok |-> TRUE, out |-> TimeoutText]
    ELSE IF res.rc = 0 THEN [ok |-> TRUE, out |-> res.out]
    ELSE [ok |-> DryRunNonZero(res.out), out |-> res.out]

\* dry_run(pip, pkgs) for a non-empty pkgs, given what the subprocess did
dry_run(res) ==
    IF res.kind = "timeout" THEN [ok |-> FALSE, out |-> TimeoutText]
    ELSE IF res.rc = 0 THEN [ok |-> TRUE, out |-> res.out]
    ELSE [ok |-> DryRunNonZero(res.out), out |-> res.out]

\* a classification that looks for the network phrases first
classify_dry_run_net_first(ok, out) ==
    IF ok THEN [cls |-> "safe", err |-> EmptyText]
    ELSE IF (out.phrases \cap NetMarkers) # {} THEN [cls |-> "unknown", err |-> out]
    ELSE IF (out.phrases \cap ConflictMarkers) # {} THEN [cls |-> "risky", err |-> out]
    ELSE [cls |-> "unknown", err |-> out]

\* classify_dry_run: (cls, err)
classify_dry_run(ok, out) ==
    IF ok THEN [cls |-> "safe", err |-> EmptyText]
    ELSE IF (out.phrases \cap ConflictMarkers) # {} THEN [cls |-> "risky", err |-> out]
    ELSE IF (out.phrases \cap NetMarkers) # {} THEN [cls |-> "unknown", err |-> out]
    ELSE [cls |-> "unknown", err |-> out]

is_no_matching_distribution(out) == (out.phrases \cap NoMatchingMarkers) # {}

extract_versions_from_no_matching(out) ==
    IF "from versions:" \notin out.phrases THEN <<>>
    ELSE SortedSeq({ v \in Range(out.from_versions) : v # Null })

\* the text kept in update_error: None, "" or a non-empty text
ErrTag(err) == IF err = EmptyText THEN "" ELSE "pip_output"

-----------------------------------------------------------------------------
(* Reverse constraints: requirements that installed distributions put on    *)
(* the candidates.  installed_map.requires is a set of [dist, dep, spec].   *)
build_reverse_constraints(target_names, imap) ==
    { r \in imap.requires :
        canonicalize_name(r.dep) \in { canonicalize_name(n) : n \in target_names }
        /\ SpecNonEmpty(r.spec) }

\* a lookup that never reports a conflict
find_reverse_conflicts_none(reverse_map, pkg_name, target_ver) == {}

find_reverse_conflicts(reverse_map, pkg_name, target_ver) ==
    { r.dist : r \in { q \in reverse_map :
                        canonicalize_name(q.dep) = pkg_name /\ ~SpecContains(q.spec, target_ver) } }

-----------------------------------------------------------------------------
(* Candidates, lines 1455-1481 *)
Target(rpt) == IF rpt.installable_max # Null THEN rpt.installable_max ELSE rpt.max_allowed

EmptyLists ==
    [ cand |-> <<>>, missing |-> <<>>, downgrades |-> <<>>, held |-> <<>>,
      pinned_ok |-> <<>>, pinned_mismatch |-> <<>>,
      safe |-> <<>>, risky |-> <<>>, unknown |-> <<>> ]

\* a candidates loop without the downgrade branch
CandidateBranchNoDowngrade(rpt, n, hold_set, pin_map) ==
    LET tgt == Target(rpt) IN
    IF tgt = Null THEN "skip"
    ELSE IF n \in DOMAIN pin_map
         THEN (IF rpt.installed # Null /\ VerStr(rpt.installed) = pin_map[n]
               THEN "pinned_ok" ELSE "pinned_mismatch")
    ELSE IF n \in hold_set THEN "held"
    ELSE IF rpt.installed = Null THEN "missing"
    ELSE IF VLt(rpt.installed, tgt) THEN "cand"
    ELSE "skip"

\* the branch one package takes in the candidates loop
CandidateBranch(rpt, n, hold_set, pin_map) ==
    LET tgt == Target(rpt) IN
    IF tgt = Null THEN "skip"
    ELSE IF n \in DOMAIN pin_map
         THEN (IF rpt.installed # Null /\ VerStr(rpt.installed) = pin_map[n]
               THEN "pinned_ok" ELSE "pinned_mismatch")
    ELSE IF n \in hold_set THEN "held"
    ELSE IF rpt.installed = Null THEN "missing"
    ELSE IF VLt(rpt.installed, tgt) THEN "cand"
    ELSE IF VLt(tgt, rpt.installed) THEN "downgrades"
    ELSE "skip"

RECURSIVE CandidatesFrom(_, _, _, _, _, _)
CandidatesFrom(ls, nms, rpts, hold_set, pin_map, k) ==
    IF k > Len(nms) THEN ls
    ELSE LET n == nms[k]
             r == rpts[n]
             b == CandidateBranch(r, n, hold_set, pin_map)
             next ==
                CASE b = "pinned_ok" -> [ls EXCEPT !.pinned_ok = Append(@, <<n, pin_map[n]>>)]
                  [] b = "pinned_mismatch" -> [ls EXCEPT !.pinned_mismatch = Append(@, <<n, pin_map[n]>>)]
                  [] b = "held" -> [ls EXCEPT !.held = Append(@, n)]
                  [] b = "missing" -> [ls EXCEPT !.missing = Append(@, <<n, Target(r)>>)]
                  [] b = "cand" -> [ls EXCEPT !.cand = Append(@, <<n, Target(r)>>)]
                  [] b = "downgrades" -> [ls EXCEPT !.downgrades = Append(@, <<n, Target(r)>>)]
                  [] OTHER -> ls
         IN CandidatesFrom(next, nms, rpts, hold_set, pin_map, k+1)

-----------------------------------------------------------------------------
(* Classification of one candidate (n, v), body of the loop at lines        *)
(* 1490-1542.  res1 / res2 are what the first / second pip subprocess does  *)
(* if it is spawned.  The result names the bucket ("none" after a           *)
(* `continue`), the version appended, the new report, the dry_run calls     *)
(* made, and whether an exception escaped.                                  *)
\* an argument list that asks pip to install for real
InstallArgs == <<"install">>

\* line 1005: pip + ["install", "--dry-run"] + ["name==version", ...]
DryRunArgs == <<"install", "--dry-run">>

\* a call that names every candidate at once
CallBatched(n, v, res) ==
    [args |-> DryRunArgs, pkgs |-> << <<n, v>> >> \o lists.cand, res |-> res]

Call(n, v, res) == [args |-> DryRunArgs, pkgs |-> << <<n, v>> >>, res |-> res]

\* what the subprocess of line 1007 does to the environment: pip install
\* without --dry-run, when it exits with 0, leaves the requested versions
\* installed; with --dry-run it installs nothing
RECURSIVE PipInstalls(_, _, _)
PipInstalls(imap, calls, k) ==
    IF k > Len(calls) THEN imap
    ELSE LET c == calls[k]
             n == c.pkgs[1][1]
             done == "--dry-run" \notin Range(c.args) /\ c.res.kind = "exit" /\ c.res.rc = 0
         IN PipInstalls(IF done /\ n \in DOMAIN imap.version
                        THEN [imap EXCEPT !.version[n] = c.pkgs[1][2]] ELSE imap,
                        calls, k+1)

Outcome(bucket, ver, rpt, calls, crashed) ==
    [bucket |-> bucket, ver |-> ver, rpt |-> rpt, calls |-> calls, crashed |-> crashed]

\* an end of the loop body that appends to the safe and risky lists only
FinishNoUnknown(rpt, cls, err, conflicts, v, calls) ==
    Outcome(IF cls = "unknown" THEN "none" ELSE cls, v,
            [rpt EXCEPT !.update_ok = IF cls = "safe" THEN "True" ELSE "False",
                        !.update_error = IF cls = "safe" THEN "None" ELSE err,
                        !.reverse_conflicts = conflicts],
            calls, FALSE)

\* lines 1531-1541: the end of the loop body
Finish(rpt, cls, err, conflicts, v, calls) ==
    Outcome(cls, v,
            [rpt EXCEPT !.update_ok = IF cls = "safe" THEN "True" ELSE "False",
                        !.update_error = IF cls = "safe" THEN "None" ELSE err,
                        !.reverse_conflicts = conflicts],
            calls, FALSE)

\* lines 1500-1530: the first dry run failed with "no matching distribution"
NoMatchingFallback(rpt, n, v, reverse_map, d1, call1, res2) ==
    LET specs == NonEmptySpecs(rpt)
        available == extract_versions_from_no_matching(d1.out)
        fallback == IF available # <<>> THEN choose_max(available, specs) ELSE Null
    IN IF fallback # Null
       THEN LET r1 == [rpt EXCEPT !.installable_max = fallback,
                                  !.availability_issue = "not available; highest installable"]
            IN IF rpt.installed # Null /\ VLe(fallback, rpt.installed)
               THEN Outcome("none", v,
                            [r1 EXCEPT !.update_ok = "True", !.update_error = "None"],
                            <<call1>>, FALSE)
               ELSE LET conflicts2 == find_reverse_conflicts(reverse_map, n, fallback)
                    IN IF conflicts2 # {}
                       THEN Finish(r1, "risky", "reverse_conflict", conflicts2, fallback, <<call1>>)
                       ELSE IF res2.kind = "oserror"
                            THEN Outcome("none", fallback, r1, <<call1, Call(n, fallback, res2)>>, TRUE)
                            ELSE LET d2 == dry_run(res2)
                                     c2 == classify_dry_run(d2.ok, d2.out)
                                 IN Finish(r1, c2.cls, ErrTag(c2.err), {}, fallback,
                                           <<call1, Call(n, fallback, res2)>>)
       ELSE Outcome("none", v,
                    [rpt EXCEPT !.installable_max = rpt.installed,
                                !.availability_issue = "not available",
                                !.update_ok = "False",
                                !.update_error = "pip_output"],
                    <<call1>>, FALSE)

ClassifyOne(rpt, n, v, reverse_map, res1, res2) ==
    LET conflicts == find_reverse_conflicts(reverse_map, n, v)
    IN IF conflicts # {}
       THEN Finish(rpt, "risky", "reverse_conflict", conflicts, v, <<>>)
       ELSE IF res1.kind = "oserror"
            THEN Outcome("none", v, rpt, <<Call(n, v, res1)>>, TRUE)
            ELSE LET d1 == dry_run(res1)
                     c1 == classify_dry_run(d1.ok, d1.out)
                 IN IF ~d1.ok /\ is_no_matching_distribution(d1.out)
                    THEN NoMatchingFallback(rpt, n, v, reverse_map, d1, Call(n, v, res1), res2)
                    ELSE Finish(rpt, c1.cls, ErrTag(c1.err), conflicts, v, <<Call(n, v, res1)>>)

-----------------------------------------------------------------------------
(* Report: per-package lines (1547-1600) and final commands (1629-1674)     *)
ReportAction(rpt) ==
    LET tgt == Target(rpt) IN
    IF rpt.installed = Null /\ tgt # Null THEN "install"
    ELSE IF tgt # Null /\ rpt.installed # Null /\ VLt(rpt.installed, tgt) THEN "upgrade"
    ELSE IF tgt # Null /\ rpt.installed # Null /\ VLt(tgt, rpt.installed) THEN "downgrade"
    ELSE "None"

\* the last line printed for a package: Hold, Pin or Update
StatusLine(rpt, n, hold_set, pin_map) ==
    IF n \in hold_set THEN "Hold: Updates disabled"
    ELSE IF n \in DOMAIN pin_map
         THEN (IF rpt.installed # Null /\ VerStr(rpt.installed) = pin_map[n]
               THEN "Pin: Locked" ELSE "Pin: Locked (installed differs)")
    ELSE IF ReportAction(rpt) = "install" THEN "Update: Not installed; will be added"
    ELSE IF ReportAction(rpt) = "upgrade" THEN "Update: Upgrade suggested"
    ELSE IF ReportAction(rpt) = "downgrade" THEN "Update: consider downgrade"
    ELSE "None"

PackageLines(rpt, n, hold_set, pin_map) ==
    [ installed |-> rpt.installed,
      max_allowed |-> Target(rpt),
      pypi_max_allowed |-> IF rpt.max_allowed # Null /\ rpt.installable_max # Null
                              /\ rpt.installable_max # rpt.max_allowed
                           THEN rpt.max_allowed ELSE Null,
      availability_issue |-> rpt.availability_issue,
      constraint_issue |-> IF rpt.update_error \in {"None", ""} THEN "None" ELSE rpt.update_error,
      action |-> ReportAction(rpt),
      status |-> StatusLine(rpt, n, hold_set, pin_map) ]

\* cmdline(): the "name==version" items of a command
\* extras: the raw VCS / URL lines that follow the items (Missing command)
Command(label, verb, items, extras) ==
    [label |-> label, verb |-> verb, items |-> items, extras |-> extras]

OptionalCommand(label, verb, items) ==
    IF items # <<>> THEN <<Command(label, verb, items, {})>> ELSE <<>>

\* extra_to_install, as a set: sorted(set(...)) only fixes the order
ExtraToInstall(extras) == { extras[k].raw : k \in { j \in DOMAIN extras : need_vcs_install(extras[j]) } }

MissingCommand(ls, extras) ==
    IF ls.missing # <<>> \/ ExtraToInstall(extras) # {}
    THEN <<Command("Missing", "install", ls.missing, ExtraToInstall(extras))>> ELSE <<>>

FinalCommands(ls, extras) ==
    OptionalCommand("Safe updates", "install --upgrade", ls.safe)
    \o OptionalCommand("Risky updates", "install --upgrade", ls.risky)
    \o OptionalCommand("Unknown updates", "install --upgrade", ls.unknown)
    \o MissingCommand(ls, extras)
    \o OptionalCommand("Pinned fixes", "install", ls.pinned_mismatch)
    \o OptionalCommand("Held packages", "", SortedNames(Range(ls.held)))
    \o OptionalCommand("Downgrades", "install", ls.downgrades)

\* the "Update" line of a VCS / URL entry, lines 1613-1626
VcsLines(v) ==
    [ name |-> v.name, raw |-> v.raw, installed |-> v.installed, ref_ok |-> v.ref_ok,
      reinstall |-> need_vcs_install(v) ]

NothingPrinted == [packages |-> EmptyMap, vcs |-> <<>>, commands |-> <<>>]

-----------------------------------------------------------------------------
(* Inputs of an audit run *)
GE_1_20 == { Clause(">=", <<1,20>>) }
LT_2_0 == { Clause("<", <<2,0>>) }
LE_2_5 == { Clause("<=", <<2,5>>) }
EQ_1_0 == { Clause("==", <<1,0>>) }
EQ_2_0 == { Clause("==", <<2,0>>) }
NoSpec == {}
NE_1_26 == { Clause("!=", <<1,26>>) }
GT_1_20_LT_3_0 == { Clause(">", <<1,20>>), Clause("<", <<3,0>>) }

\* a plugin folder, and the ComfyUI root, with a readable requirements.txt
Plugin(name, lines) == Folder(name, "", TRUE, TRUE, <<File(<<"requirements.txt">>, TRUE, lines)>>)
Tree(root, plugins) == [root |-> Plugin("ComfyUI", root), plugins |-> plugins]

\* root: numpy>=1.20 ; plugin: numpy<2.0 and Pillow
TreeNumpyRange ==
    Tree(<<Line(Numpy, GE_1_20)>>, <<Plugin("plugin_a", <<Line(Numpy, LT_2_0), Line(Pillow, NoSpec)>>)>>)

\* root: numpy==1.0 and pillow<=2.5 ; plugin: NumPy==2.0
TreeExclusive ==
    Tree(<<Line(Numpy, EQ_1_0), Line(pillow, LE_2_5)>>, <<Plugin("plugin_a", <<Line(NumPy, EQ_2_0)>>)>>)

PillowUrl ==
    ExtraLine("git+https://github.com/org/pillow.git@abc1", pillow,
              "git+https://github.com/org/pillow.git", <<"a","b","c","1">>)

\* root: numpy ; plugins: pillow<=2.5, numpy<2.0 and a VCS line for pillow
TreeLoose ==
    Tree(<<Line(Numpy, NoSpec)>>,
         <<Plugin("plugin_a", <<Line(pillow, LE_2_5)>>),
           Plugin("plugin_b", <<Line(Numpy, LT_2_0), PillowUrl>>)>>)

\* root: numpy>1.20,<3.0 ; no plugin
TreeNewer == Tree(<<Line(Numpy, GT_1_20_LT_3_0)>>, <<>>)

Trees == { TreeNumpyRange, TreeExclusive, TreeLoose, TreeNewer }

PackageNames == { Numpy, pillow }

InstalledVersions == { Null, <<1,20>>, <<3,0>> }

\* a distribution "torch" that requires numpy<2.0, or none
TorchRequires == [dist |-> "torch", dep |-> NumPy, spec |-> LT_2_0]
\* a distribution "torchvision" that requires Pillow>=2.0
TorchvisionRequires == [dist |-> "torchvision", dep |-> Pillow, spec |-> { Clause(">=", <<2,0>>) }]
RequiresMenu == { {}, {TorchRequires}, {TorchRequires, TorchvisionRequires} }

\* pillow 3.0 is the distribution installed from the git commit abc1f0
InstalledCommit(v) ==
    [n \in PackageNames |-> IF n = pillow /\ v[n] = <<3,0>> THEN <<"a","b","c","1","f","0">> ELSE <<>>]

InstalledMaps ==
    { [version |-> v, commit |-> InstalledCommit(v), requires |-> r] :
        v \in [PackageNames -> InstalledVersions], r \in RequiresMenu }

Configs ==
    { Config(<<>>, NoPins, FALSE, <<>>, NoPins),
      Config(<<Numpy>>, NoPins, FALSE, <<>>, NoPins),
      Config(<<Numpy>>, NoPins, TRUE, <<>>, NoPins),
      Config(<<>>, NoPins, TRUE, <<NumPy, pillow>>, NoPins),
      Config(<<>>, NoPins, TRUE, <<Numpy>>, [m \in {Numpy} |-> "1.20"]),
      Config(<<>>, [m \in {pillow} |-> "1.20"], FALSE, <<>>, NoPins) }

\* the listing of the end-to-end scenario, and a short one out of order with
\* a pre-release and a release that excludes the interpreter
ListingNumpy ==
    << Stable(<<1,19>>), Stable(<<1,20>>), Stable(<<1,24>>), Stable(<<1,26>>),
       Stable(<<2,0>>), Stable(<<2,1>>) >>

ListingShort ==
    << Stable(<<3,0>>), Release(<<2,5>>, FALSE, <<"bad", "ok">>), Stable(<<1,20>>),
       Release(<<2,1>>, TRUE, <<"none">>), Release(<<2,0>>, FALSE, <<"bad">>) >>

IndexAnswers == { IndexFailure, IndexAnswer(ListingNumpy), IndexAnswer(ListingShort) }

NoMatchingPhrases ==
    { "could not find a version that satisfies the requirement",
      "no matching distribution found for", "from versions:" }

\* the paths the user may type at "New venv path:"
NewVenvPaths == { "venv_a", "venv_new" }

PipResults ==
    { PipExit(0, EmptyText),
      PipExit(2, Text({"no such option"}, <<>>)),
      PipExit(1, Text({"resolutionimpossible", "conflicting dependencies"}, <<>>)),
      PipExit(1, Text({"connection"}, <<>>)),
      PipExit(1, Text({"connection", "requires"}, <<>>)),
      PipExit(1, Text({"error:"}, <<>>)),
      PipExit(1, Text({"usage:", "error:"}, <<>>)),
      PipExit(1, Text(NoMatchingPhrases, <<>>)),
      PipExit(1, Text(NoMatchingPhrases, << <<1,24>>, <<1,19>>, Null >>)),
      PipExit(1, Text(NoMatchingPhrases, << <<1,20>>, <<1,0>> >>)),
      PipExit(1, Text(NoMatchingPhrases, << <<3,0>>, <<1,19>> >>)),
      PipTimeout,
      PipSpawnError }

-----------------------------------------------------------------------------
(* config.json: the keys of the environment and of the plugin directories.  *)
(* venv_paths is Null when the key is absent, custom_nodes_path and         *)
(* venv_path are "" when absent.                                            *)
ConfigFile(env_type, venv_path, venv_paths, custom_nodes_path) ==
    [ env_type |-> env_type, venv_path |-> venv_path, venv_paths |-> venv_paths,
      custom_nodes_path |-> custom_nodes_path ]

CondaConfig == ConfigFile("conda", "", Null, "custom_nodes")

\* _unique_paths: the first occurrence of every path, in order
RECURSIVE unique_paths(_)
unique_paths(paths) ==
    IF paths = <<>> THEN <<>>
    ELSE LET front == unique_paths(SubSeq(paths, 1, Len(paths) - 1))
             p == paths[Len(paths)]
         IN IF p = "" \/ p \in Range(front) THEN front ELSE Append(front, p)

\* _load_venv_paths: the items of venv_paths, then venv_path
load_venv_paths(c) ==
    unique_paths((IF c.venv_paths # Null THEN c.venv_paths ELSE <<>>)
                 \o (IF c.venv_path # "" THEN <<c.venv_path>> ELSE <<>>))

\* default_idx of select_venv, lines 651-656
DefaultIdx(paths, current) ==
    IF current # "" /\ current \in Range(paths)
    THEN CHOOSE i \in DOMAIN paths : paths[i] = current /\ \A j \in 1..(i-1) : paths[j] # current
    ELSE 1

\* the answer that ends the menu loop of select_venv: "" (the default), "A"
\* with a new path, or the number of a listed path
Answer(kind, number, new_path) == [kind |-> kind, number |-> number, new_path |-> new_path]

\* the answers that the loop accepts for these paths (every other answer
\* prints the menu again)
Accepted(paths, new_paths) ==
    { Answer("A", 0, p) : p \in new_paths }
    \cup (IF paths # <<>> THEN { Answer("", 0, "") } ELSE {})
    \cup { Answer("digit", k, "") : k \in DOMAIN paths }

\* select_venv, lines 637-692: cfg with the venv_path and venv_paths it sets
select_venv(c, answer) ==
    LET paths == load_venv_paths(c)
    IN CASE answer.kind = "" ->
              [c EXCEPT !.venv_path = paths[DefaultIdx(paths, c.venv_path)], !.venv_paths = paths]
         [] answer.kind = "A" ->
              [c EXCEPT !.venv_path = answer.new_path,
                        !.venv_paths = unique_paths(Append(paths, answer.new_path))]
         [] OTHER ->
              [c EXCEPT !.venv_path = paths[answer.number], !.venv_paths = paths]

\* lines 1259-1262: a missing custom_nodes_path becomes the default directory
\* when that directory exists
DefaultCustomNodes(c, default_dir) ==
    IF c.custom_nodes_path = "" /\ default_dir
    THEN [c EXCEPT !.custom_nodes_path = "ComfyUI/custom_nodes"] ELSE c

\* _save_config: the file after a write of c that succeeds or raises
Saved(file, c, written) == IF written THEN c ELSE file

-----------------------------------------------------------------------------
(* requirements_checker/config_manager.py: ConfigManager. The file is       *)
(* [exists, data]; data is the JSON object, a function from its keys to     *)
(* their values, with "None" for a JSON null.                               *)

\* dict.get(key): None for a key the object does not have
ConfigGet(config, key) == IF key \in DOMAIN config THEN config[key] ELSE "None"

\* config[key] = value
ConfigPut(config, key, value) ==
    [k \in DOMAIN config \cup {key} |-> IF k = key THEN value ELSE config[k]]

\* _ensure_config_exists: a missing file is written as {}
ensure_config_exists(file) ==
    IF ~file.exists THEN [exists |-> TRUE, data |-> EmptyMap] ELSE file

\* read_config / write_config
read_config(file) == file.data

write_config(file, config) == [exists |-> TRUE, data |-> config]

\* set_value with the write of {key: value} alone
set_value_reset(file, key, value) ==
    write_config(file, ConfigPut(EmptyMap, key, value))

\* set_value: read, assign one key, write
set_value(file, key, value) ==
    write_config(file, ConfigPut(read_config(file), key, value))

\* the keys get_value prompts for
PromptKeys == { "env_type", "conda_path", "conda_env", "conda_env_folder", "custom_nodes_path" }

\* get_value: the stored value when check_only or when it is not None;
\* otherwise the answer to the key's prompt, stored, or None for a key
\* without prompt. The answer "NO" ends the process with sys.exit.
get_value(file, key, check_only, answer) ==
    LET config == read_config(file)
        value == ConfigGet(config, key)
    IN IF check_only \/ value # "None"
       THEN [file |-> file, result |-> value, raised |-> "none"]
       ELSE IF key \notin PromptKeys
       THEN [file |-> file, result |-> "None", raised |-> "none"]
       ELSE IF answer = "NO"
       THEN [file |-> file, result |-> "None", raised |-> "SystemExit"]
       ELSE [file |-> write_config(file, ConfigPut(config, key, answer)),
             result |-> answer, raised |-> "none"]

\* the keys and values of the calls made on a ConfigManager
CfgKeys == { "env_type", "test_key" }

CfgValues == { "None", "venv", "conda" }

\* the answers a prompt ends with
PromptAnswers(key) ==
    IF key = "env_type" THEN { "venv", "conda", "NO" } ELSE { "f:/ComfyUI/env", "NO" }

NoCall == [name |-> "none", key |-> "", value |-> "None", result |-> "None", raised |-> "none",
           before |-> [exists |-> FALSE, data |-> EmptyMap]]

Unset == [k \in CfgKeys |-> "unset"]

\* no ConfigManager in use
NoConfigManager ==
    [file |-> [exists |-> FALSE, data |-> EmptyMap], constructed |-> FALSE, call |-> NoCall,
     last_set |-> Unset, last_value |-> Unset]

-----------------------------------------------------------------------------
(* requirements_checker/main.py: main(). chk.step is the statement of the   *)
(* try block in progress, chk.printed what was printed, chk.raised what a   *)
(* step raised, chk.ended how the call of main() ended.                     *)

NoError == [kind |-> "none", text |-> ""]

Exception(text) == [kind |-> "Exception", text |-> text]

SystemExit(text) == [kind |-> "SystemExit", text |-> text]

ErrorMessage(text) == [msg |-> "An error occurred: ", text |-> text]

ExitPromptMessage == [msg |-> "Press Enter to exit...", text |-> ""]

NotStarted ==
    [step |-> "none", config_valid |-> TRUE, printed |-> {}, raised |-> NoError, ended |-> "running"]

\* the handler printing a fixed message
except_Exception_silent(c, e) ==
    [c EXCEPT !.raised = e, !.printed = @ \cup {ErrorMessage("")}, !.step = "exit_prompt"]

\* lines 309-311: except Exception as e: print(An error occurred: str(e)),
\* and control goes on to the statement after the try
except_Exception(c, e) ==
    [c EXCEPT !.raised = e, !.printed = @ \cup {ErrorMessage(e.text)}, !.step = "exit_prompt"]

\* what a step that raises e does to the call of main(): an Exception is
\* handled at line 309, a SystemExit is not an Exception and leaves main()
Raise(c, e) ==
    IF e.kind = "Exception" THEN except_Exception(c, e)
    ELSE [c EXCEPT !.raised = e, !.step = "done", !.ended = "SystemExit"]

\* lines 221-232: the statement after get_value(key) has returned value
AfterConfigValue(key, value) ==
    CASE key = "env_type" -> IF value = "conda" THEN "conda_path" ELSE "custom_nodes"
      [] key = "conda_path" -> "conda_env"
      [] key = "conda_env" -> "conda_env_folder"
      [] key = "conda_env_folder" -> "custom_nodes"
      [] OTHER -> "activate"

\* utils.check_dependencies: a missing module is installed with pip, and a
\* failing installation ends the process with sys.exit(1)
check_dependencies(c, missing, installed) ==
    IF missing /\ ~installed
    THEN Raise([c EXCEPT !.printed = @ \cup {[msg |-> "Failed to install dependencies: ", text |-> ""]}],
               SystemExit("1"))
    ELSE [c EXCEPT !.step = "env_type"]

\* environment_manager.activate_virtual_environment: for a venv,
\* os.path.exists(venv_path) raises TypeError when venv_path is not
\* configured (get_value has no prompt for it), and open(activate_command)
\* raises when the activation script cannot be opened
activate_virtual_environment(c, config, path_exists, script_opens) ==
    IF ConfigGet(config, "env_type") = "venv"
    THEN IF ConfigGet(config, "venv_path") = "None"
         THEN Raise(c, Exception("path should be string, not NoneType"))
         ELSE IF path_exists /\ ~script_opens
         THEN Raise(c, Exception("No such file or directory"))
         ELSE [c EXCEPT !.step = "requirements"]
    ELSE [c EXCEPT !.step = "requirements"]

-----------------------------------------------------------------------------
(* comfyui_pip_update_audit.py --hold / --pin / --unhold / --unpin          *)
(* (_early_hold_pin). The "holds" object of config.json is a function from  *)
(* environment keys to entries [hold_packages, pin_packages].               *)

\* _canonicalize_simple; _split_items has stripped the items
canonicalize_simple(name) == CollapseFrom(name, 1)

EmptyEntry == [hold_packages |-> <<>>, pin_packages |-> EmptyMap]

\* _ensure_env_entry: the entry of env_key, created empty when missing
ensure_env_entry(holds, env_key) ==
    IF env_key \in DOMAIN holds THEN holds
    ELSE [e \in DOMAIN holds \cup {env_key} |-> IF e = env_key THEN EmptyEntry ELSE holds[e]]

\* the --hold loop comparing the spellings as written
HoldItemRaw(hold_list, item) ==
    LET pkg == canonicalize_simple(item)
    IN IF \E i \in DOMAIN hold_list : hold_list[i] = pkg
       THEN hold_list ELSE Append(hold_list, pkg)

\* lines 240-242: one item of --hold, appended in canonical form unless the
\* list has an entry of that canonical name
HoldItem(hold_list, item) ==
    LET pkg == canonicalize_simple(item)
    IN IF \E i \in DOMAIN hold_list : canonicalize_simple(hold_list[i]) = pkg
       THEN hold_list ELSE Append(hold_list, pkg)

RECURSIVE HoldItems(_, _, _)
HoldItems(hold_list, items, k) ==
    IF k > Len(items) THEN hold_list
    ELSE HoldItems(HoldItem(hold_list, items[k]), items, k + 1)

\* _get_version_simple: importlib_metadata.version(pkg) of the running
\* interpreter, Null when it raises PackageNotFoundError
get_version_simple(installed, pkg) ==
    IF canonicalize_name(pkg) \in DOMAIN installed THEN installed[canonicalize_name(pkg)] ELSE Null

\* lines 254-266: the --pin loop; an item is [pkg, ver], ver = Null without
\* "=="; error when an item without version names a package not installed
RECURSIVE PinItems(_, _, _, _)
PinItems(pins, items, k, installed) ==
    IF k > Len(items) THEN [pins |-> pins, error |-> FALSE]
    ELSE LET raw == items[k]
             ver == IF raw.ver # Null THEN raw.ver ELSE get_version_simple(installed, raw.pkg)
             key == canonicalize_simple(raw.pkg)
         IN IF ver = Null THEN [pins |-> pins, error |-> TRUE]
            ELSE PinItems([n \in DOMAIN pins \cup {key} |-> IF n = key THEN ver ELSE pins[n]],
                          items, k + 1, installed)

\* lines 271-280: --unhold
UnholdItems(hold_list, items) ==
    LET to_remove == { canonicalize_simple(items[i]) : i \in DOMAIN items }
        Keep(p) == canonicalize_simple(p) \notin to_remove
    IN SelectSeq(hold_list, Keep)

\* lines 282-293: --unpin
UnpinItems(pins, items) ==
    LET to_remove == { canonicalize_simple(items[i]) : i \in DOMAIN items }
    IN [n \in { m \in DOMAIN pins : canonicalize_simple(m) \notin to_remove } |-> pins[n]]

\* _early_hold_pin: --hold and its save, then --pin and its save, then
\* --unhold, then --unpin; the file is what the last save before the end or
\* before the SystemExit of --pin has written
early_hold_pin(file, env_key, args, installed) ==
    LET cfg0 == ensure_env_entry(file, env_key)
        cfg1 == IF args.hold # <<>>
                THEN [cfg0 EXCEPT ![env_key].hold_packages = HoldItems(@, args.hold, 1)] ELSE cfg0
        saved1 == IF args.hold # <<>> THEN cfg1 ELSE file
        p == PinItems(cfg1[env_key].pin_packages, args.pin, 1, installed)
    IN IF args.pin # <<>> /\ p.error THEN [file |-> saved1, error |-> TRUE]
       ELSE LET cfg2 == IF args.pin # <<>> THEN [cfg1 EXCEPT ![env_key].pin_packages = p.pins] ELSE cfg1
                cfg3 == IF args.unhold # <<>>
                        THEN [cfg2 EXCEPT ![env_key].hold_packages = UnholdItems(@, args.unhold)]
                        ELSE cfg2
                cfg4 == IF args.unpin # <<>>
                        THEN [cfg3 EXCEPT ![env_key].pin_packages = UnpinItems(@, args.unpin)]
                        ELSE cfg3
            IN [file |-> cfg4, error |-> FALSE]

NoArgs == [hold |-> <<>>, pin |-> <<>>, unhold |-> <<>>, unpin |-> <<>>]

\* nothing held or pinned from the command line
NoHoldPin ==
    [file |-> EmptyMap,
     call |-> [made |-> FALSE, env |-> "", args |-> NoArgs, before |-> EmptyMap, error |-> FALSE]]

-----------------------------------------------------------------------------
(* The audit run *)
Init ==
    /\ pc = "collect"
    /\ cfg \in Configs
    /\ tree \in Trees
    /\ installed_map \in InstalledMaps
    /\ names = <<>>
    /\ reports = EmptyMap
    /\ pypi = <<>>
    /\ extra_reqs = <<>>
    /\ idx = 1
    /\ lists = EmptyLists
    /\ dry_runs = <<>>
    /\ printed = NothingPrinted
    /\ config_file = CondaConfig
    /\ earlier = Null
    /\ checker = Null
    /\ cm = NoConfigManager
    /\ hp = NoHoldPin
    /\ chk = NotStarted

\* the orders in which os.listdir may give the entries of a directory
Listings(entries) ==
    { [k \in DOMAIN entries |-> entries[p[k]]] :
        p \in { q \in [DOMAIN entries -> DOMAIN entries] : \A i, j \in DOMAIN entries : i # j => q[i] # q[j] } }

\* lines 1369-1419: aggregate the constraints, create the reports
Collect ==
    /\ pc = "collect"
    /\ \E listing \in Listings(tree.plugins) :
          LET plugins == plugin_dirs(listing)
              allc == CollectConstraints(tree.root, plugins)
              ex == CollectExtras(tree.root, plugins)
              nms == SortedNames(DOMAIN allc)
          IN IF ListingFails(tree.root, plugins)
             THEN pc' = "crashed" /\ UNCHANGED <<names, reports, extra_reqs>>
             ELSE /\ names' = nms
                  /\ reports' = [n \in DOMAIN allc |->
                                   PackageReport(n, inst_ver_from_map(installed_map, n), allc[n])]
                  /\ extra_reqs' = [k \in DOMAIN ex |-> resolve_vcs_installed(installed_map, ex[k])]
                  /\ pc' = IF nms # <<>> THEN "pypi"
                           ELSE IF ex # <<>> THEN "vcs" ELSE "candidates"
    /\ idx' = 1
    /\ UNCHANGED <<cfg, tree, installed_map, pypi, lists, dry_runs, printed, config_file, earlier, checker>>
    /\ UNCHANGED tools

\* lines 1421-1439: one iteration of the PyPI loop
PyPIStep(answers) ==
    /\ pc = "pypi"
    /\ idx <= Len(names)
    /\ \E answer \in answers :
          /\ reports' = [reports EXCEPT ![names[idx]] = ResolvePackage(@, answer)]
          /\ pypi' = Append(pypi, answer)
    /\ idx' = IF idx = Len(names) THEN 1 ELSE idx + 1
    /\ pc' = IF idx < Len(names) THEN "pypi"
             ELSE IF extra_reqs # <<>> THEN "vcs" ELSE "candidates"
    /\ UNCHANGED <<cfg, tree, installed_map, names, extra_reqs, lists, dry_runs, printed, config_file, earlier, checker>>
    /\ UNCHANGED tools

\* lines 1441-1453: one iteration of the VCS refs loop
VcsRefStep ==
    /\ pc = "vcs"
    /\ idx <= Len(extra_reqs)
    /\ \E ok \in BOOLEAN : extra_reqs' = [extra_reqs EXCEPT ![idx] = CheckRef(@, ok)]
    /\ idx' = IF idx = Len(extra_reqs) THEN 1 ELSE idx + 1
    /\ pc' = IF idx = Len(extra_reqs) THEN "candidates" ELSE "vcs"
    /\ UNCHANGED <<cfg, tree, installed_map, names, reports, pypi, lists, dry_runs, printed, config_file, earlier, checker>>
    /\ UNCHANGED tools

\* lines 1455-1483
Candidates ==
    /\ pc = "candidates"
    /\ LET ls == CandidatesFrom(EmptyLists, names, reports, HoldSet(cfg), PinMap(cfg), 1)
       IN /\ lists' = ls
          /\ pc' = IF ls.cand = <<>> THEN "report" ELSE "classify"
    /\ idx' = 1
    /\ UNCHANGED <<cfg, tree, installed_map, names, reports, pypi, extra_reqs, dry_runs, printed, config_file, earlier, checker>>
    /\ UNCHANGED tools

ReverseMap == build_reverse_constraints({ lists.cand[k][1] : k \in DOMAIN lists.cand }, installed_map)

\* lines 1490-1542: one iteration of the classification loop
ClassifyStep ==
    /\ pc = "classify"
    /\ idx <= Len(lists.cand)
    /\ \E res1 \in PipResults, res2 \in PipResults :
          LET n == lists.cand[idx][1]
              v == lists.cand[idx][2]
              o == ClassifyOne(reports[n], n, v, ReverseMap, res1, res2)
          IN /\ reports' = [reports EXCEPT ![n] = o.rpt]
             /\ dry_runs' = dry_runs \o o.calls
             /\ installed_map' = PipInstalls(installed_map, o.calls, 1)
             /\ lists' = CASE o.bucket = "safe" -> [lists EXCEPT !.safe = Append(@, <<n, o.ver>>)]
                           [] o.bucket = "risky" -> [lists EXCEPT !.risky = Append(@, <<n, o.ver>>)]
                           [] o.bucket = "unknown" -> [lists EXCEPT !.unknown = Append(@, <<n, o.ver>>)]
                           [] OTHER -> lists
             /\ pc' = IF o.crashed THEN "crashed"
                      ELSE IF idx = Len(lists.cand) THEN "report" ELSE "classify"
    /\ idx' = idx + 1
    /\ UNCHANGED <<cfg, tree, names, pypi, extra_reqs, printed, config_file, earlier, checker>>
    /\ UNCHANGED tools

\* lines 1546-1674
Report ==
    /\ pc = "report"
    /\ printed' = [ packages |-> [n \in DOMAIN reports |->
                                    PackageLines(reports[n], n, HoldSet(cfg), PinMap(cfg))],
                    vcs |-> [k \in DOMAIN extra_reqs |-> VcsLines(extra_reqs[k])],
                    commands |-> FinalCommands(lists, extra_reqs) ]
    /\ pc' = "done"
    /\ UNCHANGED <<cfg, tree, installed_map, names, reports, pypi, extra_reqs, idx, lists, dry_runs, config_file, earlier, checker>>
    /\ UNCHANGED tools

\* lines 1257-1271: configuration and environment, on a configuration that
\* load_or_init_config found complete.  default_dir: the custom_nodes folder
\* of the ComfyUI root exists; written1 / written2: the write of config.json
\* succeeds (line 1264, line 694).
Setup ==
    /\ pc = "setup"
    /\ \E default_dir \in BOOLEAN, written1 \in BOOLEAN, written2 \in BOOLEAN :
          LET c1 == DefaultCustomNodes(config_file, default_dir)
              f1 == IF c1 # config_file THEN Saved(config_file, c1, written1) ELSE config_file
          IN /\ IF c1.env_type = "venv"
                THEN \E answer \in Accepted(load_venv_paths(c1), NewVenvPaths) :
                        config_file' = Saved(f1, select_venv(c1, answer), written2)
                ELSE config_file' = f1
             \* guess_paths: sys.exit when no plugin directory is known
             /\ pc' = IF c1.custom_nodes_path = "" THEN "config_error" ELSE "collect"
    /\ UNCHANGED <<cfg, tree, installed_map, names, reports, pypi, extra_reqs, idx, lists, dry_runs,
                   printed, earlier, checker>>
    /\ UNCHANGED tools

Next ==
    \/ Collect
    \/ PyPIStep(IndexAnswers)
    \/ VcsRefStep
    \/ Candidates
    \/ ClassifyStep
    \/ Report

Spec == Init /\ [][Next]_vars

-----------------------------------------------------------------------------
(* The audit run from its first line, on every configuration of the         *)
(* environment keys.                                                        *)
VenvPathMenu == { "", "venv_a", "venv_b" }
VenvPathsMenu == { Null, <<>>, <<"venv_a">>, <<"venv_a", "venv_b">>, <<"venv_b", "venv_a">> }
CustomNodesMenu == { "", "custom_nodes" }

ConfigFiles ==
    { ConfigFile("conda", "", Null, cn) : cn \in CustomNodesMenu }
    \cup { ConfigFile("venv", vp, vps, cn) :
              vp \in VenvPathMenu, vps \in VenvPathsMenu, cn \in CustomNodesMenu }

InitSetup ==
    /\ pc = "setup"
    /\ cfg = Config(<<>>, NoPins, FALSE, <<>>, NoPins)
    /\ tree = TreeLoose
    /\ installed_map = [version |-> [n \in PackageNames |-> IF n = Numpy THEN <<1,20>> ELSE Null],
                        commit |-> [n \in PackageNames |-> <<>>], requires |-> {}]
    /\ names = <<>>
    /\ reports = EmptyMap
    /\ pypi = <<>>
    /\ extra_reqs = <<>>
    /\ idx = 1
    /\ lists = EmptyLists
    /\ dry_runs = <<>>
    /\ printed = NothingPrinted
    /\ config_file \in ConfigFiles
    /\ earlier = Null
    /\ checker = Null
    /\ cm = NoConfigManager
    /\ hp = NoHoldPin
    /\ chk = NotStarted

NextSetup ==
    \/ Setup
    \/ Next

SpecSetup == InitSetup /\ [][NextSetup]_vars

-----------------------------------------------------------------------------
(* The aggregation on its own: every small set of custom_nodes entries,     *)
(* the audit run twice on the same tree, and requirements_checker once.     *)
TorchIndex == OptionLine("--extra-index-url https://download.pytorch.org/whl/cu121")

EggUrl == WithTail(PillowUrl, "#egg=Pillow")

MacOnlyUrl ==
    WithMarker(ExtraLine("git+https://github.com/org/numpy.git ; sys_platform == 'darwin'", Numpy,
                         "git+https://github.com/org/numpy.git", <<>>), "false")

RootMenu ==
    { Folder("ComfyUI", "", TRUE, TRUE,
             <<File(<<"requirements.txt">>, TRUE,
                    <<CommentLine("# core"), Line(Numpy, GE_1_20), BlankLine, TorchIndex>>)>>),
      Folder("ComfyUI", "", TRUE, TRUE, <<>>),
      Folder("ComfyUI", "", TRUE, TRUE,
             <<File(<<"requirements.txt">>, FALSE, <<Line(Numpy, GE_1_20)>>)>>) }

FolderMenu ==
    { Plugin("plugin_a", <<Line(PillowSIMD, GE_1_20), MacOnlyUrl>>),
      Folder("plugin_b", "", TRUE, TRUE,
             <<File(<<"Requirements.txt">>, TRUE,
                    <<WithTail(Line(pillow_simd, LT_2_0), "# pinned"),
                      WithMarker(Line(Numpy, EQ_1_0), "false")>>)>>),
      Plugin("plugin_c", <<Line(PillowDotSimd, LE_2_5), EggUrl>>),
      Folder("plugin_d", ".disable", TRUE, TRUE,
             <<File(<<"requirements.txt">>, TRUE, <<Line(Numpy, EQ_2_0), PillowUrl>>)>>),
      Folder("plugin_e", ".disabled", TRUE, TRUE,
             <<File(<<"requirements.txt">>, TRUE, <<Line(NumPy, LT_2_0)>>)>>),
      Folder("plugin_f", "", TRUE, TRUE,
             <<File(<<"requirements.txt">>, FALSE, <<Line(Numpy, LE_2_5)>>)>>),
      Folder("plugin_g", "", TRUE, TRUE,
             <<File(<<"requirements-dev.txt">>, TRUE, <<Line(pillow, EQ_1_0)>>),
               File(<<"tests", "requirements.txt">>, TRUE, <<Line(Numpy, LE_2_5), PillowUrl>>)>>),
      Folder("plugin_h", "", TRUE, FALSE,
             <<File(<<"requirements.txt">>, TRUE, <<Line(pillow, NoSpec)>>)>>),
      Folder("notes", "", FALSE, FALSE, <<>>) }

AggTrees ==
    { [root |-> r, plugins |-> SortedDirs(S)] :
        r \in RootMenu, S \in { T \in SUBSET FolderMenu : Cardinality(T) <= MaxFolders } }

InitAggregate ==
    /\ pc = "collect"
    /\ cfg = Config(<<>>, NoPins, FALSE, <<>>, NoPins)
    /\ tree \in AggTrees
    /\ installed_map = [version |-> [n \in PackageNames |-> Null],
                        commit |-> [n \in PackageNames |-> <<>>], requires |-> {}]
    /\ names = <<>>
    /\ reports = EmptyMap
    /\ pypi = <<>>
    /\ extra_reqs = <<>>
    /\ idx = 1
    /\ lists = EmptyLists
    /\ dry_runs = <<>>
    /\ printed = NothingPrinted
    /\ config_file = CondaConfig
    /\ earlier = Null
    /\ checker = Null
    /\ cm = NoConfigManager
    /\ hp = NoHoldPin
    /\ chk = NotStarted

\* what the collect phase of the run in progress has produced
Collected ==
    [ crashed |-> pc = "crashed",
      names |-> names,
      allc |-> [n \in DOMAIN reports |-> reports[n].constraints],
      extras |-> extra_reqs ]

\* the audit is started again on the same tree: a new process, lines
\* 1370-1371 give it an empty allc and an empty extra_reqs
RunAgain ==
    /\ pc \in {"pypi", "vcs", "candidates", "crashed"}
    /\ earlier = Null
    /\ earlier' = Collected
    /\ pc' = "collect"
    /\ names' = <<>>
    /\ reports' = EmptyMap
    /\ extra_reqs' = <<>>
    /\ idx' = 1
    /\ UNCHANGED <<cfg, tree, installed_map, pypi, lists, dry_runs, printed, config_file, checker>>
    /\ UNCHANGED tools

\* requirements_checker main(), lines 241-296, on the same tree; an
\* unreadable file makes open() raise, and main() catches that at line 309
CheckerAggregate ==
    /\ checker = Null
    /\ \E listing \in Listings(tree.plugins), found \in BOOLEAN :
          LET dirs == CheckerDirs(tree, listing)
              d == AddCheckerDirs(EmptyDict, dirs, 1)
          IN checker' =
                IF \E k \in DOMAIN dirs : ~TopRequirements(dirs[k])[1].readable
                THEN [aborted |-> TRUE, requirements_dict |-> EmptyDict, normalized_dict |-> EmptyDict]
                ELSE [aborted |-> FALSE, requirements_dict |-> d,
                      normalized_dict |-> process_requirements_dict(d, found)]
    /\ UNCHANGED <<pc, cfg, tree, installed_map, names, reports, pypi, extra_reqs, idx, lists,
                   dry_runs, printed, config_file, earlier>>
    /\ UNCHANGED tools

NextAggregate ==
    \/ Collect
    \/ RunAgain
    \/ CheckerAggregate

SpecAggregate == InitAggregate /\ [][NextAggregate]_vars

-----------------------------------------------------------------------------
(* The resolver on its own: one package, every short list of constraints,   *)
(* every short answer of the index in every order.                          *)

SpecMenu == { NoSpec, GE_1_20, LT_2_0, LE_2_5, EQ_1_0, EQ_2_0, NE_1_26, GT_1_20_LT_3_0 }

ReleaseMenu ==
    { Stable(<<1,0>>), Stable(<<1,20>>), Stable(<<1,26>>), Stable(<<2,0>>), Stable(<<2,5>>),
      Stable(<<3,0>>), Release(<<2,1>>, TRUE, <<"none">>), Release(<<2,0>>, FALSE, <<"bad">>),
      Release(Null, FALSE, <<>>) }

SeqsUpTo(S, n) == UNION { [1..k -> S] : k \in 0..n }

Distinct(s) == \A a, b \in DOMAIN s : a # b => s[a] # s[b]

ResolverAnswers ==
    { IndexFailure } \cup { IndexAnswer(l) : l \in { s \in SeqsUpTo(ReleaseMenu, MaxReleases) : Distinct(s) } }

\* the first constraint comes from the root file, the others from one plugin each
PluginName(k) == CASE k = 1 -> "plugin_a" [] k = 2 -> "plugin_b" [] OTHER -> "plugin_c"

ResolverTree(specs) ==
    Tree(<<Line(Numpy, specs[1])>>,
         [k \in 1..(Len(specs) - 1) |-> Plugin(PluginName(k), <<Line(NumPy, specs[k+1])>>)])

ResolverTrees == { ResolverTree(specs) : specs \in SeqsUpTo(SpecMenu, MaxConstraints) \ {<<>>} }

InitResolve ==
    /\ pc = "collect"
    /\ cfg = Config(<<>>, NoPins, FALSE, <<>>, NoPins)
    /\ tree \in ResolverTrees
    /\ installed_map = [version |-> [n \in PackageNames |-> Null],
                        commit |-> [n \in PackageNames |-> <<>>], requires |-> {}]
    /\ names = <<>>
    /\ reports = EmptyMap
    /\ pypi = <<>>
    /\ extra_reqs = <<>>
    /\ idx = 1
    /\ lists = EmptyLists
    /\ dry_runs = <<>>
    /\ printed = NothingPrinted
    /\ config_file = CondaConfig
    /\ earlier = Null
    /\ checker = Null
    /\ cm = NoConfigManager
    /\ hp = NoHoldPin
    /\ chk = NotStarted

NextResolve ==
    \/ Collect
    \/ PyPIStep(ResolverAnswers)

SpecResolve == InitResolve /\ [][NextResolve]_vars

-----------------------------------------------------------------------------
(* The command-line tools on their own: no audit run in progress.           *)

audit == <<pc, cfg, tree, installed_map, names, reports, pypi, extra_reqs, idx, lists, dry_runs, printed,
           config_file, earlier, checker>>

NoAudit ==
    /\ pc = "idle"
    /\ cfg = Config(<<>>, NoPins, FALSE, <<>>, NoPins)
    /\ tree = Tree(<<>>, <<>>)
    /\ installed_map = [version |-> [n \in PackageNames |-> Null],
                        commit |-> [n \in PackageNames |-> <<>>], requires |-> {}]
    /\ names = <<>>
    /\ reports = EmptyMap
    /\ pypi = <<>>
    /\ extra_reqs = <<>>
    /\ idx = 1
    /\ lists = EmptyLists
    /\ dry_runs = <<>>
    /\ printed = NothingPrinted
    /\ config_file = CondaConfig
    /\ earlier = Null
    /\ checker = Null

(* ConfigManager *)

MissingFile == [exists |-> FALSE, data |-> EmptyMap]

StoredFile(data) == [exists |-> TRUE, data |-> data]

ManagerFiles ==
    { MissingFile, StoredFile(EmptyMap), StoredFile([k \in {"env_type"} |-> "conda"]) }

InitConfigManager ==
    /\ NoAudit
    /\ cm \in { [NoConfigManager EXCEPT !.file = f] : f \in ManagerFiles }
    /\ hp = NoHoldPin
    /\ chk = NotStarted

Called(name, key, value, result, raised, before) ==
    [name |-> name, key |-> key, value |-> value, result |-> result, raised |-> raised, before |-> before]

\* ConfigManager(config_path)
Construct ==
    /\ ~cm.constructed
    /\ cm' = [cm EXCEPT !.file = ensure_config_exists(cm.file),
                        !.constructed = TRUE,
                        !.call = Called("init", "", "None", "None", "none", cm.file)]
    /\ UNCHANGED <<audit, hp, chk>>

\* config_manager.set_value(key, value)
SetValue ==
    /\ cm.constructed
    /\ \E key \in CfgKeys, value \in CfgValues :
          cm' = [cm EXCEPT !.file = set_value(cm.file, key, value),
                           !.call = Called("set_value", key, value, "None", "none", cm.file),
                           !.last_set[key] = value,
                           !.last_value[key] = IF value # "None" THEN value ELSE @]
    /\ UNCHANGED <<audit, hp, chk>>

\* config_manager.get_value(key, check_only); sys.exit ends the process
GetValue ==
    /\ cm.constructed
    /\ \E key \in CfgKeys, check_only \in BOOLEAN : \E answer \in PromptAnswers(key) :
          LET r == get_value(cm.file, key, check_only, answer)
          IN cm' = [cm EXCEPT !.file = r.file,
                              !.constructed = (r.raised = "none"),
                              !.call = Called("get_value", key, "None", r.result, r.raised, cm.file)]
    /\ UNCHANGED <<audit, hp, chk>>

NextConfigManager ==
    \/ Construct
    \/ SetValue
    \/ GetValue

SpecConfigManager == InitConfigManager /\ [][NextConfigManager]_vars

(* requirements_checker main() *)

Configured(keys) == StoredFile([k \in keys |-> IF k = "env_type" THEN "conda" ELSE "f:/ComfyUI/env"])

VenvFile(keys) == StoredFile([k \in keys |-> IF k = "env_type" THEN "venv" ELSE "f:/ComfyUI/env"])

CheckerFiles ==
    { MissingFile, StoredFile(EmptyMap),
      Configured({"env_type"}), Configured({"env_type", "conda_path", "conda_env"}),
      Configured({"env_type", "conda_path", "conda_env", "conda_env_folder", "custom_nodes_path"}),
      VenvFile({"env_type"}), VenvFile({"env_type", "venv_path"}),
      VenvFile({"env_type", "venv_path", "custom_nodes_path"}) }

\* config.json as the import of the package finds it, valid JSON or not
InitChecker ==
    /\ NoAudit
    /\ cm \in { [NoConfigManager EXCEPT !.file = f] : f \in CheckerFiles }
    /\ hp = NoHoldPin
    /\ chk \in { [NotStarted EXCEPT !.config_valid = v] : v \in BOOLEAN }
    /\ ~chk.config_valid => cm.file.exists

\* python -m requirements_checker: the import has constructed
\* config_manager, main() is called
MainStart ==
    /\ cm.constructed
    /\ chk.step = "none"
    /\ chk' = [chk EXCEPT !.step = "check_dependencies"]
    /\ UNCHANGED <<audit, hp, cm>>

\* line 218
CheckDependencies ==
    /\ chk.step = "check_dependencies"
    /\ \E missing \in BOOLEAN, installed \in BOOLEAN :
          chk' = check_dependencies(chk, missing, installed)
    /\ UNCHANGED <<audit, hp, cm>>

\* lines 221-228: config_manager.get_value(key); read_config raises
\* json.JSONDecodeError on a file that is not JSON
ConfigValue ==
    /\ chk.step \in PromptKeys
    /\ IF ~chk.config_valid
       THEN /\ chk' = Raise(chk, Exception("Expecting value"))
            /\ UNCHANGED cm
       ELSE \E answer \in PromptAnswers(chk.step) :
              LET r == get_value(cm.file, chk.step, FALSE, answer)
              IN /\ cm' = [cm EXCEPT !.file = r.file]
                 /\ chk' = IF r.raised = "SystemExit"
                           THEN Raise(chk, SystemExit("Exiting script as requested."))
                           ELSE [chk EXCEPT !.step = AfterConfigValue(chk.step, r.result)]
    /\ UNCHANGED <<audit, hp>>

\* lines 226-228, get_custom_nodes_paths: the configured directory, if any
CustomNodesPaths ==
    /\ chk.step = "custom_nodes"
    /\ chk' = [chk EXCEPT !.step = IF ConfigGet(read_config(cm.file), "custom_nodes_path") # "None"
                                   THEN "activate" ELSE "custom_nodes_path"]
    /\ UNCHANGED <<audit, hp, cm>>

\* line 239
Activate ==
    /\ chk.step = "activate"
    /\ \E path_exists \in BOOLEAN, script_opens \in BOOLEAN :
          chk' = activate_virtual_environment(chk, read_config(cm.file), path_exists, script_opens)
    /\ UNCHANGED <<audit, hp, cm>>

\* lines 241-307: the requirements files are read and the packages
\* reported; open() of an unreadable file raises
Requirements ==
    /\ chk.step = "requirements"
    /\ \E readable \in BOOLEAN :
          chk' = IF readable THEN [chk EXCEPT !.step = "exit_prompt"]
                 ELSE Raise(chk, Exception("Permission denied"))
    /\ UNCHANGED <<audit, hp, cm>>

\* line 313: input(Press Enter to exit...), after the try statement
ExitPrompt ==
    /\ chk.step = "exit_prompt"
    /\ \E stdin \in { "enter", "EOF" } :
          chk' = [chk EXCEPT !.step = "done",
                             !.printed = @ \cup {ExitPromptMessage},
                             !.ended = IF stdin = "enter" THEN "returned" ELSE "EOFError"]
    /\ UNCHANGED <<audit, hp, cm>>

NextChecker ==
    \/ Construct
    \/ MainStart
    \/ CheckDependencies
    \/ ConfigValue
    \/ CustomNodesPaths
    \/ Activate
    \/ Requirements
    \/ ExitPrompt

SpecChecker == InitChecker /\ [][NextChecker]_vars

(* --hold / --pin / --unhold / --unpin *)

HoldEnvs == { "venv_a", "conda:comfy" }

Entry(hold_packages, pin_packages) == [hold_packages |-> hold_packages, pin_packages |-> pin_packages]

PinOf(name, ver) == [n \in {name} |-> ver]

\* config.json before the first invocation; NumPy is an entry written by hand
HoldFiles ==
    { EmptyMap,
      [e \in {"venv_a"} |-> Entry(<<NumPy>>, PinOf(Numpy, <<1,20>>))],
      [e \in HoldEnvs |-> IF e = "venv_a" THEN Entry(<<NumPy>>, EmptyMap) ELSE Entry(<<pillow>>, EmptyMap)] }

Args(hold, pin, unhold, unpin) == [hold |-> hold, pin |-> pin, unhold |-> unhold, unpin |-> unpin]

PinItem(pkg, ver) == [pkg |-> pkg, ver |-> ver]

\* the command lines: one option, and options combined
ArgsMenu ==
    { Args(<<Numpy>>, <<>>, <<>>, <<>>), Args(<<NumPy, Numpy>>, <<>>, <<>>, <<>>),
      Args(<<Pillow>>, <<>>, <<>>, <<>>),
      Args(<<>>, <<>>, <<Numpy>>, <<>>), Args(<<>>, <<>>, <<Pillow>>, <<>>),
      Args(<<>>, << PinItem(NumPy, Null) >>, <<>>, <<>>), Args(<<>>, << PinItem(pillow, Null) >>, <<>>, <<>>),
      Args(<<>>, << PinItem(Pillow, <<2,0>>) >>, <<>>, <<>>),
      Args(<<>>, <<>>, <<>>, <<NumPy>>),
      Args(<<Pillow>>, << PinItem(pillow, Null) >>, <<>>, <<>>),
      Args(<<>>, << PinItem(Pillow, <<2,0>>), PinItem(pillow, Null) >>, <<>>, <<>>),
      Args(<<Numpy>>, <<>>, <<Numpy>>, <<>>),
      Args(<<Pillow>>, << PinItem(Pillow, <<2,0>>) >>, <<Numpy>>, <<NumPy>>) }

\* what importlib_metadata finds in the running interpreter
HoldInstalled == { PinOf(Numpy, <<1,20>>) }

InitHoldPin ==
    /\ NoAudit
    /\ cm = NoConfigManager
    /\ hp \in { [NoHoldPin EXCEPT !.file = f] : f \in HoldFiles }
    /\ chk = NotStarted

\* one invocation with hold/pin arguments, for the environment the
\* configuration selects
EarlyHoldPin ==
    /\ \E env_key \in HoldEnvs, args \in ArgsMenu, installed \in HoldInstalled :
          LET r == early_hold_pin(hp.file, env_key, args, installed)
          IN hp' = [file |-> r.file,
                    call |-> [made |-> TRUE, env |-> env_key, args |-> args, before |-> hp.file,
                              error |-> r.error]]
    /\ UNCHANGED <<audit, cm, chk>>

NextHoldPin == EarlyHoldPin

SpecHoldPin == InitHoldPin /\ [][NextHoldPin]_vars

-----------------------------------------------------------------------------
(* Properties of the resolver *)

\* the packages whose index query and resolution have taken place
NumResolved ==
    IF pc = "collect" THEN 0 ELSE IF pc = "pypi" THEN idx - 1 ELSE Len(names)

Resolved == { names[k] : k \in 1..NumResolved }

AnswerOf(n) == pypi[CHOOSE k \in 1..NumResolved : names[k] = n]

\* v satisfies every specifier among the constraints of the report
SatisfiesAll(rpt, v) ==
    \A k \in DOMAIN rpt.constraints : \A c \in rpt.constraints[k].spec : ClauseHolds(v, c)

HasSpecifier(rpt) == \E k \in DOMAIN rpt.constraints : rpt.constraints[k].spec # {}

FeasibleSet(rpt) == { v \in Range(rpt.available_versions) : SatisfiesAll(rpt, v) }

IsGreatest(v, S) == v \in S /\ \A w \in S : VLe(w, v)

\* the stable releases of an answer that some file, or no file at all, allows
\* on the running interpreter
UsableVersions(answer) ==
    { r.ver : r \in { q \in Range(answer.releases) :
                        q.ver # Null /\ ~q.pre
                        /\ (q.files = <<>> \/ \E k \in DOMAIN q.files : q.files[k] # "bad") } }

\* C1: whatever the order in which the index lists the releases, and for
\* every non-empty set of specifiers, max_allowed of a resolved package is the
\* greatest of its available versions that satisfies all the specifiers (and
\* null when there is none); the available versions are the usable releases
\* of the index answer.
C1_GreatestFeasible ==
    \A n \in Resolved :
        LET r == reports[n] IN
        HasSpecifier(r) =>
            /\ Range(r.available_versions) = UsableVersions(AnswerOf(n))
            /\ IF FeasibleSet(r) = {} THEN r.max_allowed = Null
               ELSE IsGreatest(r.max_allowed, FeasibleSet(r))

\* a resolved package with two specifiers, listed out of order by the index,
\* whose greatest feasible version is neither the first nor the last listed
C1_Witness ==
    /\ Numpy \in Resolved
    /\ pypi[1] = IndexAnswer(<<Stable(<<3,0>>), Stable(<<1,26>>), Stable(<<1,20>>)>>)
    /\ Len(NonEmptySpecs(reports[Numpy])) = 2
    /\ reports[Numpy].max_allowed = <<1,26>>

\* C2: with at least one non-empty specifier and a non-empty version list,
\* max_allowed is either null or a member of available_versions that
\* satisfies every specifier, and it is null when no listed version
\* satisfies them all.
C2_NeverInfeasible ==
    \A n \in Resolved :
        LET r == reports[n] IN
        (HasSpecifier(r) /\ r.available_versions # <<>>) =>
            /\ r.max_allowed # Null =>
                  (r.max_allowed \in Range(r.available_versions) /\ SatisfiesAll(r, r.max_allowed))
            /\ (\A v \in Range(r.available_versions) : ~SatisfiesAll(r, v)) => r.max_allowed = Null

\* ==1.0 together with ==2.0 on a list that has both versions: null
C2_Witness ==
    /\ Numpy \in Resolved
    /\ { reports[Numpy].constraints[k].spec : k \in DOMAIN reports[Numpy].constraints } = { EQ_1_0, EQ_2_0 }
    /\ { <<1,0>>, <<2,0>> } \subseteq Range(reports[Numpy].available_versions)
    /\ reports[Numpy].max_allowed = Null

\* C3: a package none of whose constraints has a specifier gets the maximum
\* of its available versions, and null when it has no available version.
C3_NoSpecifierLatest ==
    \A n \in Resolved :
        LET r == reports[n] IN
        ~HasSpecifier(r) =>
            IF r.available_versions = <<>> THEN r.max_allowed = Null
            ELSE IsGreatest(r.max_allowed, Range(r.available_versions))

\* no specifier, three releases listed out of order
C3_Witness ==
    /\ Numpy \in Resolved
    /\ ~HasSpecifier(reports[Numpy])
    /\ pypi[1] = IndexAnswer(<<Stable(<<2,0>>), Stable(<<3,0>>), Stable(<<1,0>>)>>)
    /\ reports[Numpy].max_allowed = <<3,0>>

-----------------------------------------------------------------------------
(* Properties of an audit run *)
Past(phases) == pc \in phases

Classified == Past({"classify", "report", "done", "crashed"})

Names == Range(names)

InList(l, n) == \E k \in DOMAIN l : l[k][1] = n

HasItem(l, n, v) == \E k \in DOMAIN l : l[k] = <<n, v>>

\* the number of update buckets (safe, risky, unknown) that list n
BucketCount(n) ==
    (IF InList(lists.safe, n) THEN 1 ELSE 0) + (IF InList(lists.risky, n) THEN 1 ELSE 0)
    + (IF InList(lists.unknown, n) THEN 1 ELSE 0)

\* the printed command of that label lists name==version
Printed(label, verb, n, v) ==
    \E k \in DOMAIN printed.commands :
        /\ printed.commands[k].label = label
        /\ printed.commands[k].verb = verb
        /\ HasItem(printed.commands[k].items, n, v)

\* some printed install command names n
InSomeInstallCommand(n) ==
    \E k \in DOMAIN printed.commands :
        /\ printed.commands[k].label # "Held packages"
        /\ InList(printed.commands[k].items, n)

CallsOf(n) == SelectSeq(dry_runs, LAMBDA c : c.pkgs[1][1] = n)

Probed(n) == CallsOf(n) # <<>>

Held(n) == n \in HoldSet(cfg)
Pinned(n) == n \in DOMAIN PinMap(cfg)

\* the end-to-end scenario: numpy>=1.20 in the root file, numpy<2.0 in a
\* plugin, the six releases listed, 1.20 installed, the probe of numpy ok
NumpyScenario ==
    /\ pc = "done"
    /\ tree = TreeNumpyRange
    /\ AnswerOf(Numpy) = IndexAnswer(ListingNumpy)
    /\ reports[Numpy].installed = <<1,20>>
    /\ Probed(Numpy)
    /\ \A k \in DOMAIN CallsOf(Numpy) : dry_run(CallsOf(Numpy)[k].res).ok

\* C4 as stated: in the end-to-end scenario max_allowed is 1.24, numpy is
\* upgrade_safe and the printed command is "install numpy==1.24".
C4_AsStated ==
    NumpyScenario =>
        /\ reports[Numpy].max_allowed = <<1,24>>
        /\ HasItem(lists.safe, Numpy, <<1,24>>)
        /\ \E k \in DOMAIN printed.commands : HasItem(printed.commands[k].items, Numpy, <<1,24>>)

\* C4 amended: in the end-to-end scenario max_allowed is 1.26, the greatest
\* listed version within >=1.20 and <2.0; numpy is upgrade_safe, its report
\* suggests the upgrade to 1.26, and the Safe updates command
\* "install --upgrade" lists numpy==1.26 and no other command names numpy.
C4_EndToEnd ==
    NumpyScenario =>
        /\ reports[Numpy].max_allowed = <<1,26>>
        /\ HasItem(lists.safe, Numpy, <<1,26>>)
        /\ BucketCount(Numpy) = 1
        /\ printed.packages[Numpy].max_allowed = <<1,26>>
        /\ printed.packages[Numpy].status = "Update: Upgrade suggested"
        /\ Printed("Safe updates", "install --upgrade", Numpy, <<1,26>>)
        /\ \A k \in DOMAIN printed.commands :
              InList(printed.commands[k].items, Numpy) => printed.commands[k].label = "Safe updates"

C4_Witness == NumpyScenario /\ dry_runs[1].res = PipExit(0, EmptyText)

\* C5: a package installed above its max allowed version, neither held nor
\* pinned, is in the downgrades list as soon as the candidates are chosen,
\* stays there, and when the report is printed it is marked as a downgrade
\* and the Downgrades command lists it at its max allowed version.
C5_DowngradeReported ==
    \A n \in Names :
        LET r == reports[n] IN
        (Classified \/ pc = "report") /\ r.installed # Null /\ r.max_allowed # Null
            /\ VLt(r.max_allowed, r.installed) /\ ~Held(n) /\ ~Pinned(n)
        => /\ HasItem(lists.downgrades, n, r.max_allowed)
           /\ BucketCount(n) = 0 /\ ~InList(lists.missing, n)
           /\ pc = "done" =>
                 /\ printed.packages[n].action = "downgrade"
                 /\ printed.packages[n].status = "Update: consider downgrade"
                 /\ Printed("Downgrades", "install", n, r.max_allowed)

\* installed 3.0, max allowed 2.5
C5_Witness ==
    /\ pc = "done"
    /\ pillow \in Names
    /\ reports[pillow].installed = <<3,0>>
    /\ reports[pillow].max_allowed = <<2,5>>
    /\ ~Held(pillow) /\ ~Pinned(pillow)
    /\ Printed("Downgrades", "install", pillow, <<2,5>>)

\* C6 as stated: a package in the hold set whose installed version is below
\* its max allowed version is classified held, is never probed and is in
\* none of the safe, risky and unknown lists.
C6_HoldBeforeUpgrade ==
    \A n \in Names :
        LET r == reports[n] IN
        (Classified \/ pc = "report") /\ Held(n) /\ r.installed # Null /\ r.max_allowed # Null
            /\ VLt(r.installed, r.max_allowed)
        => /\ n \in Range(lists.held)
           /\ ~Probed(n)
           /\ BucketCount(n) = 0

\* C7 as stated: a package that is both held and pinned is classified held:
\* when the report is printed it is in the Held packages list and in no
\* install command, the Pinned fixes command included.
C7_HoldBeforePin ==
    \A n \in Names :
        (pc = "done" /\ Held(n) /\ Pinned(n) /\ Target(reports[n]) # Null)
        => /\ n \in Range(lists.held)
           /\ ~InSomeInstallCommand(n)

\* the names listed in hold_packages at the top level of the configuration
\* or in the entry of the current environment
ConfiguredHolds ==
    { canonicalize_name(p) : p \in Range(cfg.hold_packages) }
    \cup (IF cfg.env.present THEN { canonicalize_name(p) : p \in Range(cfg.env.hold_packages) } ELSE {})

\* C8 as stated: a package listed in the top-level hold_packages or in
\* holds.<env>.hold_packages is in none of the safe, risky, unknown, missing
\* and downgrade commands, neither as name==version nor as a VCS / URL line.
C8_HeldExcluded ==
    \A n \in Names :
        (pc = "done" /\ n \in ConfiguredHolds)
        => \A k \in DOMAIN printed.commands :
              printed.commands[k].label \in
                  {"Safe updates", "Risky updates", "Unknown updates", "Missing", "Downgrades"}
              => /\ ~InList(printed.commands[k].items, n)
                 /\ \A j \in DOMAIN extra_reqs :
                       extra_reqs[j].raw \in printed.commands[k].extras => extra_reqs[j].name # n

\* an upgrade candidate by the words of the claim: neither held nor pinned,
\* installed below max allowed
UpgradeCandidate(n) ==
    /\ ~Held(n) /\ ~Pinned(n)
    /\ reports[n].installed # Null /\ reports[n].max_allowed # Null
    /\ VLt(reports[n].installed, reports[n].max_allowed)

FirstProbeNoMatching(n) ==
    /\ Probed(n)
    /\ LET d == dry_run(CallsOf(n)[1].res) IN ~d.ok /\ (d.out.phrases \cap NoMatchingMarkers) # {}

UnsupportedDryRun(res) ==
    res.kind = "exit" /\ res.rc # 0 /\ "no such option" \in res.out.phrases

\* C10: a package whose dry run exits non-zero with "no such option" is
\* classified safe at the probed version and its report has update_ok set.
C10_OptimisticFallback ==
    \A k \in DOMAIN dry_runs :
        LET n == dry_runs[k].pkgs[1][1]
            v == dry_runs[k].pkgs[1][2]
        IN UnsupportedDryRun(dry_runs[k].res) =>
              /\ HasItem(lists.safe, n, v)
              /\ reports[n].update_ok = "True"
              /\ reports[n].update_error = "None"
              /\ BucketCount(n) = 1

C10_Witness ==
    /\ pc = "done"
    /\ Len(dry_runs) = 1
    /\ dry_runs[1].res = PipExit(2, Text({"no such option"}, <<>>))
    /\ HasItem(lists.safe, Numpy, <<1,26>>)
    /\ Printed("Safe updates", "install --upgrade", Numpy, <<1,26>>)

\* what the output of a failed dry run says about the --dry-run option: pip
\* (optparse) answers "no such option: --dry-run", an argparse front end
\* answers "unrecognized arguments: --dry-run"
SaysDryRunUnsupported(out) ==
    (out.phrases \cap {"no such option", "unrecognized arguments"}) # {}

\* C11 as stated: a dry run that exits with 0 is ok; one that exits non-zero
\* is ok exactly when its output says that the --dry-run option is not
\* recognized; in both cases the output returned is the output captured.
C11_OkByExitCode ==
    \A k \in DOMAIN dry_runs :
        LET res == dry_runs[k].res
            d == dry_run(res)
        IN res.kind = "exit" =>
              /\ d.out = res.out
              /\ d.ok = (res.rc = 0 \/ SaysDryRunUnsupported(res.out))

\* the candidates in the order of the classification loop
CandNames == [k \in DOMAIN lists.cand |-> lists.cand[k][1]]

\* the loop body has been carried to its end for n: n is in a bucket, or the
\* report of n has its update_ok set
Processed(n) == BucketCount(n) >= 1 \/ reports[n].update_ok # "None"

\* C12: a dry run that times out yields ok = false with the text "timeout
\* after 60s"; the package is in the unknown list and in no other, its report
\* has update_ok false, the run does not stop there, and when the report is
\* reached every candidate has been processed.
C12_TimeoutUnknown ==
    \A k \in DOMAIN dry_runs :
        LET res == dry_runs[k].res
            n == dry_runs[k].pkgs[1][1]
            v == dry_runs[k].pkgs[1][2]
        IN res.kind = "timeout" =>
              /\ dry_run(res) = [ok |-> FALSE, out |-> TimeoutText]
              /\ "timeout" \in dry_run(res).out.phrases
              /\ HasItem(lists.unknown, n, v)
              /\ ~InList(lists.safe, n) /\ ~InList(lists.risky, n)
              /\ reports[n].update_ok = "False"
              /\ (pc = "crashed" => dry_runs[Len(dry_runs)].res.kind = "oserror")
              /\ (pc \in {"report", "done"} => \A j \in DOMAIN CandNames : Processed(CandNames[j]))

\* two candidates: the dry run of the first one times out, the second one is
\* then probed and is safe
C12_Witness ==
    /\ pc = "done"
    /\ Len(lists.cand) = 2
    /\ Len(dry_runs) = 2
    /\ dry_runs[1].res = PipTimeout
    /\ dry_runs[1].pkgs[1][1] = CandNames[1]
    /\ InList(lists.unknown, CandNames[1])
    /\ dry_runs[2].pkgs[1][1] = CandNames[2]
    /\ InList(lists.safe, CandNames[2])

\* C13 as stated: when the classification loop is over, every candidate has
\* been processed, whatever the dry runs of the candidates before it did
\* (non-zero exit, timeout, failure to spawn the subprocess).
C13_AllProcessed ==
    pc \in {"report", "done", "crashed"} =>
        \A j \in DOMAIN CandNames : Processed(CandNames[j])

\* C14 as stated: a package whose index query failed has no available
\* version and a null max_allowed, its report carries a diagnostic whether or
\* not it has a specifier (printed as its "Constraint issue" line), and the
\* index has been queried for every package once the PyPI loop is over.
C14_IndexFailureReported ==
    \A n \in Resolved :
        AnswerOf(n) = IndexFailure =>
            /\ reports[n].available_versions = <<>>
            /\ reports[n].max_allowed = Null
            /\ reports[n].update_error \notin {"None", ""}
            /\ (pc = "done" => printed.packages[n].constraint_issue # "None")
            /\ (pc \notin {"collect", "pypi"} => Len(pypi) = Len(names))

\* C15 as stated, in the form a finite run refutes: no audit run that began
\* with a valid configuration ends before its report, whatever the
\* requirements files, the index and the dry runs do.
C15_ReportReached == pc # "crashed"

-----------------------------------------------------------------------------
(* Aggregation claims.                                                      *)
Aggregated == pc \in {"pypi", "vcs", "candidates"}

\* the folders the audit scans: the root and the directories of
\* custom_nodes whose name does not end with ".disable"
AuditFolders ==
    {tree.root} \cup { f \in Range(tree.plugins) : f.isdir /\ f.suffix # ".disable" }

\* the folders requirements_checker scans
CheckerFolders ==
    {tree.root} \cup { f \in Range(tree.plugins) :
                         f.isdir /\ f.suffix \notin {".disable", ".disabled"} }

\* the readable top-level requirements files of a folder, as the audit
\* recognises them (any letter case) and as the checker does (exact name)
AuditTopFiles(f) ==
    { file \in Range(f.files) : /\ Len(file.path) = 1
                                /\ LowerFile(file.path[1]) = "requirements.txt"
                                /\ file.readable }

CheckerTopFiles(f) == { file \in Range(f.files) : file.path = <<"requirements.txt">> }

Spellings == {PillowSIMD, pillow_simd, PillowDotSimd}

Applies(l) == l.marker # "false"

SpelledConstraints ==
    { SourceConstraint(BaseName(f), ReqPath(f, file), l.spec) :
        <<f, file, l>> \in { x \in UNION { UNION { { <<g, fl, ln>> : ln \in Range(fl.lines) }
                                                   : fl \in AuditTopFiles(g) }
                                           : g \in AuditFolders } :
                               x[3].kind = "req" /\ Applies(x[3]) /\ x[3].name \in Spellings } }

SpelledValues ==
    UNION { UNION { { CheckerValue(l, BaseName(f)) :
                        l \in { ln \in Range(file.lines) : ln.kind = "req" /\ ln.name \in Spellings } }
                    : file \in CheckerTopFiles(f) }
            : f \in CheckerFolders }

\* C17 (audit half): the requirements written Pillow-SIMD, pillow_simd and
\* pillow.simd are all aggregated under one package key of the audit.
C17_AuditOneEntry ==
    Aggregated =>
        LET K == { n \in DOMAIN reports :
                     Range(reports[n].constraints) \cap SpelledConstraints # {} }
        IN /\ Cardinality(K) <= 1
           /\ \A n \in K : /\ SpelledConstraints \subseteq Range(reports[n].constraints)
                           /\ n = canonicalize_name(PillowSIMD)

\* C17: in the audit and in requirements_checker alike, requirements whose
\* names differ only in letter case and in "-", "_" or "." (Pillow-SIMD,
\* pillow_simd, pillow.simd) end under one key that holds all of them.
C17_OneEntry ==
    /\ C17_AuditOneEntry
    /\ (checker # Null /\ ~checker.aborted) =>
          LET nd == checker.normalized_dict
              K == { key \in DOMAIN nd.vals : Range(nd.vals[key]) \cap SpelledValues # {} }
          IN /\ Cardinality(K) <= 1
             /\ \A key \in K : SpelledValues \subseteq Range(nd.vals[key])

C17_AuditWitness ==
    /\ Aggregated
    /\ Cardinality(SpelledConstraints) = 3
    /\ canonicalize_name(PillowSIMD) \in DOMAIN reports
    /\ Len(reports[canonicalize_name(PillowSIMD)].constraints) = 3

C19_NothingDisappears ==
    Aggregated =>
        \A f \in AuditFolders : \A file \in AuditTopFiles(f) : \A l \in Range(file.lines) :
            l.kind \in {"extra", "option"} =>
                \E k \in DOMAIN extra_reqs : /\ extra_reqs[k].repo = BaseName(f)
                                              /\ extra_reqs[k].raw = l.raw \o l.tail

\* the constraints and extras come from lines of top-level requirements
\* files of scanned folders
FromTopLevel(repo, path) ==
    \E f \in AuditFolders : /\ repo = BaseName(f)
                             /\ \E file \in AuditTopFiles(f) : path = ReqPath(f, file)

\* C20: every constraint and every extra of the audit comes from a line of
\* the top-level requirements.txt of the root or of a direct child of
\* custom_nodes that is a directory and is not disabled, every such line
\* that applies is collected, and requirements_checker reads the same kind
\* of folders only.
C20_TopLevelEnabledOnly ==
    /\ Aggregated =>
         /\ \A n \in DOMAIN reports : \A k \in DOMAIN reports[n].constraints :
               LET c == reports[n].constraints[k]
               IN /\ FromTopLevel(c.repo, c.file)
                  /\ \E f \in AuditFolders : \E file \in AuditTopFiles(f) :
                        /\ c.file = ReqPath(f, file)
                        /\ \E l \in Range(file.lines) :
                              /\ l.kind = "req"
                              /\ canonicalize_name(l.name) = n
                              /\ l.spec = c.spec
         /\ \A k \in DOMAIN extra_reqs :
               /\ FromTopLevel(extra_reqs[k].repo, extra_reqs[k].file)
               /\ \E f \in AuditFolders : \E file \in AuditTopFiles(f) :
                     /\ extra_reqs[k].file = ReqPath(f, file)
                     /\ \E l \in Range(file.lines) : l.kind = "extra" /\ l.raw = extra_reqs[k].raw
         /\ \A f \in AuditFolders : \A file \in AuditTopFiles(f) : \A l \in Range(file.lines) :
               /\ (l.kind = "req" /\ Applies(l)) =>
                     /\ canonicalize_name(l.name) \in DOMAIN reports
                     /\ SourceConstraint(BaseName(f), ReqPath(f, file), l.spec)
                            \in Range(reports[canonicalize_name(l.name)].constraints)
               /\ (l.kind = "extra" /\ Applies(l)) =>
                     \E k \in DOMAIN extra_reqs : /\ extra_reqs[k].repo = BaseName(f)
                                                   /\ extra_reqs[k].raw = l.raw
    /\ (checker # Null /\ ~checker.aborted) =>
         LET d == checker.requirements_dict
         IN /\ \A key \in DOMAIN d.vals : \A k \in DOMAIN d.vals[key] :
                  \E f \in CheckerFolders : \E file \in CheckerTopFiles(f) :
                     \E l \in Range(file.lines) :
                        /\ l.kind \in {"req", "extra", "option"}
                        /\ package_key(l) = key
                        /\ d.vals[key][k] = CheckerValue(l, BaseName(f))
            /\ \A f \in CheckerFolders : \A file \in CheckerTopFiles(f) : \A l \in Range(file.lines) :
                  l.kind \in {"req", "extra", "option"} =>
                     /\ package_key(l) \in DOMAIN d.vals
                     /\ CheckerValue(l, BaseName(f)) \in Range(d.vals[package_key(l)])

C20_Witness ==
    /\ Aggregated
    /\ checker # Null
    /\ ~checker.aborted
    /\ \E f \in Range(tree.plugins) : f.suffix = ".disable" /\ f.files # <<>>
    /\ \E f \in Range(tree.plugins) : \E file \in Range(f.files) : Len(file.path) > 1
    /\ \E n \in DOMAIN reports : \E k \in DOMAIN reports[n].constraints :
          reports[n].constraints[k].repo # "ComfyUI"
    /\ extra_reqs # <<>>

-----------------------------------------------------------------------------
(* Probing claims.                                                          *)
\* the positions in dry_runs of the calls that name n
CallIdx(n) == { k \in DOMAIN dry_runs : dry_runs[k].pkgs[1][1] = n }

\* the loop body of the candidate at position j has been carried out
LoopDone(j) == pc \in {"report", "done"} \/ (pc = "classify" /\ j < idx)

\* C23: every dry run of an audit run names exactly one package==version
\* pair, the pair of a candidate, and carries --dry-run.
C23_OneProbeOnePackage ==
    \A k \in DOMAIN dry_runs :
        /\ Len(dry_runs[k].pkgs) = 1
        /\ InList(lists.cand, dry_runs[k].pkgs[1][1])
        /\ dry_runs[k].pkgs[1][2] # Null
        /\ "--dry-run" \in Range(dry_runs[k].args)

C23_Witness ==
    /\ pc = "done"
    /\ Len(lists.cand) = 2
    /\ Len(dry_runs) >= 2
    /\ \E j, k \in DOMAIN dry_runs : dry_runs[j].pkgs[1][1] # dry_runs[k].pkgs[1][1]
    /\ InList(lists.safe, lists.cand[1][1])
    /\ InList(lists.risky, lists.cand[2][1])

\* at most two dry runs per package, the second one only after the first
\* failed with "no matching distribution", and a package probed twice is
\* then in exactly one bucket
TwoProbesAtMost(n) ==
    LET c == CallsOf(n)
    IN /\ Len(c) <= 2
       /\ Len(c) = 2 => FirstProbeNoMatching(n)
       /\ (Len(c) = 2 /\ pc \in {"report", "done"}) => BucketCount(n) = 1

\* C24 as stated: at most two dry runs per candidate, the second only after
\* a "no matching distribution" failure of the first and for a version lower
\* than the one that failed, and no further retry after the second.
C24_OneLevelRetry ==
    \A n \in Names :
        /\ TwoProbesAtMost(n)
        /\ Len(CallsOf(n)) = 2 => VLt(CallsOf(n)[2].pkgs[1][2], CallsOf(n)[1].pkgs[1][2])

C24_RetryBound == \A n \in Names : TwoProbesAtMost(n)

\* C25: a dry run that failed is classified risky exactly when its text
\* holds a conflict phrase and unknown otherwise; a text that holds network,
\* timeout or TLS phrases only is unknown; and when the loop body reaches its
\* end with that verdict the package is in that list and in no other.
C25_ClassifiedByText ==
    \A k \in DOMAIN dry_runs :
        LET res == dry_runs[k].res
            n == dry_runs[k].pkgs[1][1]
            v == dry_runs[k].pkgs[1][2]
            d == dry_run(res)
            c == classify_dry_run(d.ok, d.out)
            conflict == \E m \in d.out.phrases :
                           m \in { "resolutionimpossible", "conflicting dependencies",
                                   "cannot install", "is incompatible with", "depends on",
                                   "requires" }
            second == \E j \in CallIdx(n) : j < k
            last == \A j \in CallIdx(n) : j <= k
        IN (res.kind # "oserror" /\ ~d.ok) =>
              /\ c.cls = IF conflict THEN "risky" ELSE "unknown"
              /\ c.err = d.out
              /\ (d.out.phrases # {} /\ d.out.phrases \subseteq NetMarkers) => c.cls = "unknown"
              /\ (last /\ pc # "crashed" /\ (second \/ ~is_no_matching_distribution(d.out))) =>
                    /\ HasItem(IF conflict THEN lists.risky ELSE lists.unknown, n, v)
                    /\ BucketCount(n) = 1
                    /\ reports[n].update_ok = "False"

C25_Witness ==
    /\ pc = "done"
    /\ Len(dry_runs) = 2
    /\ dry_runs[1].res = PipExit(1, Text({"connection", "requires"}, <<>>))
    /\ InList(lists.risky, dry_runs[1].pkgs[1][1])
    /\ dry_runs[2].res = PipExit(1, Text({"connection"}, <<>>))
    /\ InList(lists.unknown, dry_runs[2].pkgs[1][1])

\* C26 as stated: at the end of the run the version printed as "Max allowed"
\* of a package, when there is one, satisfies every specifier among the
\* constraints of the package.
C26_TargetSatisfies ==
    pc = "done" =>
        \A n \in DOMAIN printed.packages :
            printed.packages[n].max_allowed # Null =>
                \A k \in DOMAIN reports[n].constraints :
                    SpecContains(reports[n].constraints[k].spec, printed.packages[n].max_allowed)

\* some printed command with one of these labels lists name==version
Listed(labels, n, v) ==
    \E k \in DOMAIN printed.commands :
        printed.commands[k].label \in labels /\ HasItem(printed.commands[k].items, n, v)

ListedAny(labels, n) ==
    \E k \in DOMAIN printed.commands :
        printed.commands[k].label \in labels /\ InList(printed.commands[k].items, n)

UpdateLabels == {"Safe updates", "Risky updates", "Unknown updates"}

\* C27 as stated: for a package that is neither held nor pinned the report
\* announces an install, an upgrade or a downgrade to T exactly when the
\* Missing, the Safe / Risky / Unknown updates or the Downgrades command
\* lists the package, and then with version T.
C27_ReportMatchesCommands ==
    pc = "done" =>
        \A n \in Names :
            (~Held(n) /\ ~Pinned(n)) =>
                LET a == printed.packages[n].action
                    T == printed.packages[n].max_allowed
                IN /\ (a = "install") = ListedAny({"Missing"}, n)
                   /\ (a = "upgrade") = ListedAny(UpdateLabels, n)
                   /\ (a = "downgrade") = ListedAny({"Downgrades"}, n)
                   /\ a = "install" => Listed({"Missing"}, n, T)
                   /\ a = "upgrade" => Listed(UpdateLabels, n, T)
                   /\ a = "downgrade" => Listed({"Downgrades"}, n, T)

\* an installed distribution requires n with a specifier that excludes v
ReverseViolated(n, v) ==
    \E r \in installed_map.requires :
        /\ canonicalize_name(r.dep) = n
        /\ r.spec # {}
        /\ ~SpecContains(r.spec, v)

\* C28: no dry run is spawned for a target that an installed distribution's
\* requirement excludes; a candidate whose target is excluded is risky at
\* that target with a reverse-dependency reason and is never probed; and a
\* fallback version that is excluded is risky with the same reason.
C28_ReverseConflictNoProbe ==
    /\ \A k \in DOMAIN dry_runs :
          ~ReverseViolated(dry_runs[k].pkgs[1][1], dry_runs[k].pkgs[1][2])
    /\ \A j \in DOMAIN lists.cand :
          LET n == lists.cand[j][1]
              v == lists.cand[j][2]
          IN (LoopDone(j) /\ ReverseViolated(n, v)) =>
                /\ HasItem(lists.risky, n, v)
                /\ BucketCount(n) = 1
                /\ reports[n].update_ok = "False"
                /\ reports[n].update_error = "reverse_conflict"
                /\ reports[n].reverse_conflicts # {}
                /\ ~Probed(n)
    /\ \A k \in DOMAIN lists.risky :
          ReverseViolated(lists.risky[k][1], lists.risky[k][2]) =>
              reports[lists.risky[k][1]].update_error = "reverse_conflict"
    /\ \A k \in DOMAIN lists.safe :
          ~ReverseViolated(lists.safe[k][1], lists.safe[k][2])

\* numpy's target is excluded by torch: numpy is risky and was never probed
C28_Witness ==
    /\ pc = "done"
    /\ TorchRequires \in installed_map.requires
    /\ lists.cand # <<>>
    /\ \E k \in DOMAIN lists.risky :
          /\ lists.risky[k][1] = Numpy
          /\ lists.risky[k] \in Range(lists.cand)
          /\ ReverseViolated(Numpy, lists.risky[k][2])
    /\ ~Probed(Numpy)
    /\ reports[Numpy].update_error = "reverse_conflict"

\* pillow's fallback is excluded by torchvision after one probe of its target
FallbackExcluded ==
    /\ pc = "done"
    /\ \E k \in DOMAIN lists.risky :
          /\ lists.risky[k][1] = pillow
          /\ ReverseViolated(pillow, lists.risky[k][2])
          /\ Len(CallsOf(pillow)) = 1

-----------------------------------------------------------------------------
(* ConfigManager claims *)

\* set_value(k, v) has stored v under k and left every other key as it was
C21_OtherKeysKept ==
    cm.call.name = "set_value" =>
        /\ cm.call.key \in DOMAIN cm.file.data
        /\ cm.file.data[cm.call.key] = cm.call.value
        /\ \A k \in (DOMAIN cm.file.data \cup DOMAIN cm.call.before.data) \ {cm.call.key} :
              /\ k \in DOMAIN cm.file.data
              /\ k \in DOMAIN cm.call.before.data
              /\ cm.file.data[k] = cm.call.before.data[k]

\* the constructor has created a missing file as {} and left an existing one
C21_FileCreated ==
    cm.call.name = "init" =>
        /\ cm.file.exists
        /\ cm.file.data = cm.call.before.data

\* C21 as stated: get_value(k) returns the value of the last set_value(k, v)
\* whose v was not null, whatever set_value(k, null) calls came after it;
\* set_value changes no other key; the constructor creates a missing file.
C21_LastNonNullSet ==
    /\ (cm.call.name = "get_value" /\ cm.last_value[cm.call.key] # "unset") =>
          (cm.call.raised = "none" /\ cm.call.result = cm.last_value[cm.call.key])
    /\ C21_OtherKeysKept
    /\ C21_FileCreated

\* C21 amended: when the most recent set_value(k, .) stored a non-null v,
\* get_value(k) returns v (after set_value(k, null) the key is unset again:
\* get_value returns None or the answer to the key's prompt); set_value
\* changes no other key; the constructor creates a missing file.
C21_KeyValueStore ==
    /\ (cm.call.name = "get_value" /\ cm.last_set[cm.call.key] \notin {"unset", "None"}) =>
          (cm.call.raised = "none" /\ cm.call.result = cm.last_set[cm.call.key])
    /\ C21_OtherKeysKept
    /\ C21_FileCreated

\* get_value returns the value set last while another key is stored too
C21_Witness ==
    /\ cm.call.name = "get_value"
    /\ cm.call.key = "test_key"
    /\ cm.last_set["test_key"] = "venv"
    /\ cm.call.result = "venv"
    /\ ConfigGet(cm.file.data, "env_type") = "conda"

-----------------------------------------------------------------------------
(* requirements_checker main() claims *)

ErrorPrinted == ErrorMessage(chk.raised.text) \in chk.printed

\* C22 as stated: whenever a step of main() has raised, the message with the
\* error text is printed, the exit prompt is shown and main() returns
\* normally (the runs whose exit prompt meets end of input set aside).
C22_NeverPropagates ==
    (chk.step = "done" /\ chk.raised.kind # "none" /\ chk.ended # "EOFError") =>
        /\ ErrorPrinted
        /\ ExitPromptMessage \in chk.printed
        /\ chk.ended = "returned"

\* C22 amended: a step raising an exception derived from Exception makes
\* main() print the message with the error text and show the exit prompt,
\* and main() returns normally once the prompt is answered; a SystemExit
\* (the answer NO to a configuration prompt, a failed installation of a
\* missing dependency) leaves main() without message and without prompt.
C22_ExceptionsHandled ==
    /\ (chk.raised.kind = "Exception" /\ chk.step = "exit_prompt") =>
          (ErrorPrinted /\ chk.ended = "running")
    /\ (chk.raised.kind = "Exception" /\ chk.step = "done") =>
          /\ ErrorPrinted
          /\ ExitPromptMessage \in chk.printed
          /\ chk.ended \in {"returned", "EOFError"}
    /\ chk.raised.kind = "SystemExit" =>
          /\ chk.ended = "SystemExit"
          /\ ExitPromptMessage \notin chk.printed
          /\ \A m \in chk.printed : m.msg # "An error occurred: "
    /\ chk.raised.kind = "none" => \A m \in chk.printed : m.msg # "An error occurred: "

\* reading a configuration value raised, main() has returned normally
C22_Witness ==
    /\ chk.raised = Exception("Expecting value")
    /\ chk.ended = "returned"
    /\ chk.printed = { ErrorMessage("Expecting value"), ExitPromptMessage }

-----------------------------------------------------------------------------
(* Hold and pin claims *)

HoldList(file, env_key) == IF env_key \in DOMAIN file THEN file[env_key].hold_packages ELSE <<>>

PinsOf(file, env_key) == IF env_key \in DOMAIN file THEN file[env_key].pin_packages ELSE EmptyMap

NoDuplicates(hold_list) ==
    \A i, j \in DOMAIN hold_list :
        i # j => canonicalize_simple(hold_list[i]) # canonicalize_simple(hold_list[j])

CanonicalItems(items) == { canonicalize_simple(items[i]) : i \in DOMAIN items }

HoldOnly(args) == args.hold # <<>> /\ args.pin = <<>> /\ args.unhold = <<>> /\ args.unpin = <<>>

UnholdOnly(args) == args.unhold # <<>> /\ args.hold = <<>> /\ args.pin = <<>> /\ args.unpin = <<>>

NotNamed(p) == canonicalize_simple(p) \notin CanonicalItems(hp.call.args.unhold)

\* C29: no hold list has two entries of one canonical name; an invocation
\* leaves the entries of the other environments as they were; --hold of
\* packages all held already, under any spelling, leaves the list as it was;
\* --unhold removes exactly the entries canonically equal to a named package
\* and leaves the pins as they were.
C29_NoCanonicalDuplicates ==
    /\ \A e \in DOMAIN hp.file : NoDuplicates(hp.file[e].hold_packages)
    /\ hp.call.made =>
          /\ \A e \in HoldEnvs \ {hp.call.env} :
                /\ (e \in DOMAIN hp.file) = (e \in DOMAIN hp.call.before)
                /\ HoldList(hp.file, e) = HoldList(hp.call.before, e)
                /\ PinsOf(hp.file, e) = PinsOf(hp.call.before, e)
          /\ (/\ HoldOnly(hp.call.args)
              /\ CanonicalItems(hp.call.args.hold) \subseteq CanonicalItems(HoldList(hp.call.before, hp.call.env)))
                => HoldList(hp.file, hp.call.env) = HoldList(hp.call.before, hp.call.env)
          /\ UnholdOnly(hp.call.args) =>
                /\ HoldList(hp.file, hp.call.env) = SelectSeq(HoldList(hp.call.before, hp.call.env), NotNamed)
                /\ PinsOf(hp.file, hp.call.env) = PinsOf(hp.call.before, hp.call.env)

\* --hold numpy for an environment that holds NumPy, the other environment
\* holding pillow
C29_Witness ==
    /\ hp.call.made
    /\ hp.call.env = "venv_a"
    /\ hp.call.args = Args(<<Numpy>>, <<>>, <<>>, <<>>)
    /\ HoldList(hp.call.before, "venv_a") = <<NumPy>>
    /\ HoldList(hp.file, "venv_a") = <<NumPy>>
    /\ HoldList(hp.file, "conda:comfy") = <<pillow>>

\* C30: an invocation that ended with "Package not installed, cannot pin
\* without version" has added no hold and no pin to config.json.
C30_FailureLeavesConfig ==
    (hp.call.made /\ hp.call.error) =>
        \A e \in DOMAIN hp.file :
            /\ CanonicalItems(HoldList(hp.file, e)) \subseteq CanonicalItems(HoldList(hp.call.before, e))
            /\ \A n \in DOMAIN PinsOf(hp.file, e) :
                  n \in DOMAIN PinsOf(hp.call.before, e) /\ PinsOf(hp.file, e)[n] = PinsOf(hp.call.before, e)[n]

====
